---- MODULE Spec2Model ----
(***************************************************************************)
(* A model of the studio back office (LittleBennos/Fairy, backend/):       *)
(* invoices and payments, payment plans, enrollments with their capacity   *)
(* and evaluation gates, and the account/role deletion protection.         *)
(*                                                                         *)
(* Money is counted in whole units, dates are day ordinals (day 0 is       *)
(* 1 January 2024).  Each group of operations has its own specification.   *)
(***************************************************************************)
EXTENDS Integers, Sequences, FiniteSets, TLC

\* ------------------------------------------------------------------ bounds
\* The clock of the invoice and enrollment specifications runs 0..MaxDay.
MaxDay == 1
\* Invoices that may be created.
MaxInvoices == 1
\* Payments that may be stored at once.
MaxPayments == 2
\* Largest invoice total and largest payment amount a request carries.
MaxMoney == 2
\* The clock of the payment plan specification runs PlanFirstDay..PlanMaxDay.
PlanFirstDay == 28
PlanMaxDay == 72
\* Largest total_amount of a payment plan request.
MaxPlanTotal == 4
\* Largest installment_amount of a payment plan request.
MaxInstallmentAmount == 2
\* Largest number_of_installments of a payment plan request.
MaxInstallments == 3
\* Person ids and account ids of the account specification.
NumPersons == 2
MaxAccounts == 1
\* Accounts (one student each) of the enrollment specifications.
NumEnrollAccounts == 2
\* Class instances and genres of the enrollment specifications.
NumClasses == 1
NumGenres == 2
\* Largest max_students of a class instance.
MaxCapacity == 2
\* Evaluations that may be stored at once.
MaxEvaluations == 2
\* Enrollment rows that may be stored at once.
MaxEnrollments == 3
\* Requests that may be in progress at once.
NumWorkers == 2
\* Students and class instances of the attendance specification.
MaxUsers == 2
\* max_requests of the rate limiter (RATELIMIT_API_CALLS, 100 unless configured),
\* the seconds the clock moves at a time, the last second looked at and the
\* number of requests sent in all.
RateLimitApiCalls == 2
ClockStep == 20
MaxClock == 130
MaxSent == 5
NumClients == 2
\* Accounts and invoices where the balance is asked for.
NumBalanceAccounts == 2
MaxBalanceInvoices == 2
\* The counter of the per-endpoint-class rate limiter is followed up to this
\* value.
MaxSecurityCount == 23
\* The anomaly scores of the clients are followed until together they reach
\* MaxScore; one request is flagged with at most MaxAnomalies anomalies.
MaxScore == 24
MaxAnomalies == 2
NumAttStudents == 2
NumAttClasses == 2
\* Attendance records that may be stored at once.
MaxAttendance == 2

VARIABLES
    today,      \* timezone.now().date()
    invoices,   \* the Invoice table: a sequence of rows, the id is the index
    payments,   \* the Payment table: a sequence of rows
    plan,       \* the PaymentPlan row under study, NoPlan before it is created
    persons,    \* the Person table: the ids of the rows
    students,   \* the Student table: the person of each row (one-to-one)
    guardians,  \* the Guardian table, likewise
    billingContacts, \* the BillingContact table, likewise
    accounts,   \* the Account table: id -> row, NoAccount where there is none
    billed,     \* the accounts that an Invoice or a PaymentPlan references
    evaluations, \* the Evaluation table: a set of rows
    maxStudents, \* ClassInstance.max_students of each class instance
    enrollments, \* the Enrollment table: a sequence of rows
    req,        \* the request in progress (per worker where requests interleave)
    attendance, \* the AttendanceRecord table: a sequence of rows
    cancelledClasses, \* the class instances whose status is 'cancelled'
    users,      \* the User table: id -> row, NoUser where there is none
    clock,      \* time.time(), in seconds
    cache,      \* the counter store of the rate limiter: key -> [count, expires]
    recent,     \* the requests the rate limiter has handled, oldest first
    resp        \* the last request and the response it got

Max(a, b) == IF a >= b THEN a ELSE b

\* What an operation on invoices and payments leaves alone, and likewise for the
\* payment plan.
finVars == <<invoices, payments>>
planVars == <<plan>>
acctVars == <<persons, students, guardians, billingContacts, accounts, billed>>
enrVars == <<evaluations, maxStudents, enrollments, req>>
attVars == <<attendance, cancelledClasses>>
userVars == <<users>>
rateVars == <<clock, cache, recent>>
nonFin == <<planVars, acctVars, enrVars, attVars, userVars, rateVars>>
nonPlan == <<finVars, acctVars, enrVars, attVars, userVars, rateVars>>
nonEnr == <<finVars, planVars, acctVars, attVars, userVars, rateVars>>
nonAcct == <<finVars, planVars, enrVars, attVars, userVars, rateVars>>
nonAtt == <<finVars, planVars, acctVars, enrVars, userVars, rateVars>>
nonUser == <<today, finVars, planVars, acctVars, evaluations, maxStudents, enrollments,
             attVars, rateVars>>
nonRate == <<today, finVars, planVars, acctVars, enrVars, attVars, userVars>>
nonReq == <<today, finVars, planVars, acctVars, evaluations, maxStudents, enrollments,
            attVars, userVars, rateVars>>

\* --------------------------------------------------------------- financial
InvoiceStatuses == {"draft", "sent", "paid", "partially_paid", "overdue", "cancelled"}
PaymentStatuses == {"pending", "completed", "failed", "refunded", "cancelled"}

\* MinValueValidator(0.01) on Payment.amount: the smallest amount a request may carry.
MinPaymentAmount == 1

NoResp == [op |-> "none", code |-> 0]

InvoiceIds == 1..Len(invoices)
PaymentIds == 1..Len(payments)

AmountOutstanding(inv) == Max(0, inv.total - inv.amount_paid)

IsPaid(inv) == inv.amount_paid >= inv.total

IsOverdue(inv, now) ==
    /\ inv.status \notin {"paid", "cancelled"}
    /\ inv.due_date < now

UpdateStatus(inv, now) ==
    IF inv.status = "cancelled" THEN inv
    ELSE IF inv.amount_paid >= inv.total THEN [inv EXCEPT !.status = "paid"]
    ELSE IF inv.amount_paid > 0 THEN [inv EXCEPT !.status = "partially_paid"]
    ELSE IF IsOverdue(inv, now) THEN [inv EXCEPT !.status = "overdue"]
    ELSE IF inv.status = "draft" THEN inv
    ELSE [inv EXCEPT !.status = "sent"]

\* Invoice.save: the row that is written for the object inv.
InvoiceSave(inv, now) == UpdateStatus(inv, now)

RECURSIVE SumCompleted(_, _)
\* sum(p.amount for p in invoice.payments.filter(status='completed'))
SumCompleted(ps, i) ==
    IF ps = <<>> THEN 0
    ELSE (IF Head(ps).invoice = i /\ Head(ps).status = "completed"
          THEN Head(ps).amount ELSE 0) + SumCompleted(Tail(ps), i)

RemoveAt(s, k) == SubSeq(s, 1, k - 1) \o SubSeq(s, k + 1, Len(s))

\* POST /api/invoices/: amount_paid is read-only and starts at its default 0.
CreateInvoice(st, total, due) ==
    /\ Len(invoices) < MaxInvoices
    /\ LET obj == [status |-> st, total |-> total, amount_paid |-> 0, due_date |-> due]
           i == Len(invoices) + 1
       IN /\ invoices' = Append(invoices, InvoiceSave(obj, today))
          /\ resp' = [op |-> "create_invoice", code |-> 201]
    /\ UNCHANGED <<today, payments>>
    /\ UNCHANGED nonFin

\* PUT/PATCH /api/invoices/{i}/: status, total and due_date are writable.
UpdateInvoice(i, st, total, due) ==
    /\ i \in InvoiceIds
    /\ LET obj == [invoices[i] EXCEPT !.status = st, !.total = total, !.due_date = due]
       IN /\ invoices' = [invoices EXCEPT ![i] = InvoiceSave(obj, today)]
          /\ resp' = [op |-> "update_invoice", code |-> 200]
    /\ UNCHANGED <<today, payments>>
    /\ UNCHANGED nonFin

\* POST /api/invoices/{i}/send/
SendInvoice(i) ==
    /\ i \in InvoiceIds
    /\ IF invoices[i].status = "draft"
       THEN LET obj == [invoices[i] EXCEPT !.status = "sent"]
            IN /\ invoices' = [invoices EXCEPT ![i] = InvoiceSave(obj, today)]
               /\ resp' = [op |-> "send", code |-> 200]
       ELSE /\ resp' = [op |-> "send", code |-> 400]
            /\ UNCHANGED invoices
    /\ UNCHANGED <<today, payments>>
    /\ UNCHANGED nonFin

\* PaymentValid with the comparison made inclusive.
PaymentValid_Inclusive(inv, amt) == ~(amt >= AmountOutstanding(inv))

\* PaymentSerializer.validate for a new payment of amt against the invoice object inv.
PaymentValid(inv, amt) == ~(amt > AmountOutstanding(inv))

\* PaymentSaveInvoices adding the saved amount to amount_paid instead of summing
\* the completed payments afresh.
PaymentSaveInvoices_Increment(ps, p, i, inv) ==
    IF p.status = "completed"
    THEN [invoices EXCEPT ![i] =
             InvoiceSave([inv EXCEPT !.amount_paid = inv.amount_paid + p.amount], today)]
    ELSE invoices

\* Payment.save of the row p whose invoice object is inv (id i), the table being ps
\* once the row is written: the invoice is recomputed only for a completed payment.
PaymentSaveInvoices(ps, p, i, inv) ==
    IF p.status = "completed"
    THEN [invoices EXCEPT ![i] =
             InvoiceSave([inv EXCEPT !.amount_paid = SumCompleted(ps, i)], today)]
    ELSE invoices

\* POST /api/payments/ handled without interleaving.
CreatePayment(i, amt, st) ==
    /\ i \in InvoiceIds
    /\ Len(payments) < MaxPayments
    /\ amt >= MinPaymentAmount
    /\ IF PaymentValid(invoices[i], amt)
       THEN LET p == [invoice |-> i, amount |-> amt, status |-> st]
                ps == Append(payments, p)
            IN /\ payments' = ps
               /\ invoices' = PaymentSaveInvoices(ps, p, i, invoices[i])
               /\ resp' = [op |-> "create_payment", code |-> 201]
       ELSE /\ resp' = [op |-> "create_payment", code |-> 400]
            /\ UNCHANGED <<payments, invoices>>
    /\ UNCHANGED today
    /\ UNCHANGED nonFin

\* PUT/PATCH /api/payments/{k}/: the amount check is skipped for an existing payment.
UpdatePayment(k, i, amt, st) ==
    /\ k \in PaymentIds
    /\ i \in InvoiceIds
    /\ amt >= MinPaymentAmount
    /\ LET p == [invoice |-> i, amount |-> amt, status |-> st]
           ps == [payments EXCEPT ![k] = p]
       IN /\ payments' = ps
          /\ invoices' = PaymentSaveInvoices(ps, p, i, invoices[i])
          /\ resp' = [op |-> "update_payment", code |-> 200]
    /\ UNCHANGED today
    /\ UNCHANGED nonFin

\* DELETE /api/payments/{k}/: Payment has no delete hook, the invoice is not touched.
DeletePayment(k) ==
    /\ k \in PaymentIds
    /\ payments' = RemoveAt(payments, k)
    /\ resp' = [op |-> "delete_payment", code |-> 204]
    /\ UNCHANGED <<today, invoices>>
    /\ UNCHANGED nonFin

\* Midnight passes.
Tick ==
    /\ today < MaxDay
    /\ today' = today + 1
    /\ UNCHANGED <<invoices, payments, resp>>
    /\ UNCHANGED nonFin

\* ------------------------------------------------------------ calendar
\* Dates are day ordinals, day 0 being 1 January of the first of Years.
Years == 2024..2026
EpochYear == CHOOSE y \in Years : \A z \in Years : y <= z

IsLeap(y) == (y % 4 = 0 /\ y % 100 # 0) \/ y % 400 = 0

DaysInMonth(y, m) ==
    IF m = 2 THEN (IF IsLeap(y) THEN 29 ELSE 28)
    ELSE IF m \in {4, 6, 9, 11} THEN 30 ELSE 31

RECURSIVE DaysBeforeMonth(_, _)
\* days from 1 January of EpochYear to the first of month m of year y
DaysBeforeMonth(y, m) ==
    IF y = EpochYear /\ m = 1 THEN 0
    ELSE IF m = 1 THEN DaysBeforeMonth(y - 1, 12) + DaysInMonth(y - 1, 12)
    ELSE DaysBeforeMonth(y, m - 1) + DaysInMonth(y, m - 1)

\* the ordinal of the first day of each month
MonthStart == [r \in Years \X (1..12) |-> DaysBeforeMonth(r[1], r[2])]

ToOrdinal(y, m, d) == MonthStart[<<y, m>>] + d - 1

FromOrdinal(o) ==
    LET ym == CHOOSE r \in Years \X (1..12) :
                  /\ MonthStart[r] <= o
                  /\ o < MonthStart[r] + DaysInMonth(r[1], r[2])
    IN [y |-> ym[1], m |-> ym[2], d |-> o - MonthStart[ym] + 1]

\* date + relativedelta(months=k): the same day k months on, cut to the month's end
AddMonths(o, k) ==
    LET t == FromOrdinal(o)
        months == t.y * 12 + (t.m - 1) + k
        y == months \div 12
        m == (months % 12) + 1
        d == IF t.d > DaysInMonth(y, m) THEN DaysInMonth(y, m) ELSE t.d
    IN ToOrdinal(y, m, d)

\* date + relativedelta(weeks=k)
AddWeeks(o, k) == o + 7 * k

\* ----------------------------------------------------------- payment plans
PlanStatuses == {"active", "completed", "defaulted", "cancelled"}
Frequencies == {"weekly", "biweekly", "monthly"}

\* MinValueValidator(2) on PaymentPlan.number_of_installments
MinInstallments == 2
\* relativedelta(days=7): the grace period of update_status
GraceDays == 7

NoPlan == [status |-> "none"]

PlanAmountOutstanding(pl) == Max(0, pl.total_amount - pl.amount_paid)

IsCompleted(pl) == pl.amount_paid >= pl.total_amount

InstallmentsRemaining(pl) == Max(0, pl.number_of_installments - pl.installments_paid)

ExpectedPaymentDate(pl) ==
    IF pl.frequency = "weekly" THEN AddWeeks(pl.first_payment_date, pl.installments_paid)
    ELSE IF pl.frequency = "biweekly"
         THEN AddWeeks(pl.first_payment_date, pl.installments_paid * 2)
    ELSE AddMonths(pl.first_payment_date, pl.installments_paid)

\* PlanUpdateStatus defaulting a plan on the last day of the grace period.
PlanUpdateStatus_GraceInclusive(pl, now) ==
    IF IsCompleted(pl) THEN [pl EXCEPT !.status = "completed"]
    ELSE IF pl.status = "active"
    THEN IF /\ ExpectedPaymentDate(pl) < now
            /\ pl.installments_paid < pl.number_of_installments
            /\ now >= ExpectedPaymentDate(pl) + GraceDays
         THEN [pl EXCEPT !.status = "defaulted"]
         ELSE pl
    ELSE pl

\* PaymentPlan.update_status
PlanUpdateStatus(pl, now) ==
    IF IsCompleted(pl) THEN [pl EXCEPT !.status = "completed"]
    ELSE IF pl.status = "active"
    THEN IF /\ ExpectedPaymentDate(pl) < now
            /\ pl.installments_paid < pl.number_of_installments
            /\ now > ExpectedPaymentDate(pl) + GraceDays
         THEN [pl EXCEPT !.status = "defaulted"]
         ELSE pl
    ELSE pl

\* PaymentPlan.save: the row that is written for the object pl.
PlanSave(pl, now) == PlanUpdateStatus(pl, now)

\* PaymentPlanSerializer.validate, the installment coverage rule
PlanValid(total, inst, n) == ~(inst * n < total)

\* POST /api/payment-plans/: status is writable; nothing is paid yet.
CreatePlan(st, total, inst, n, freq, first) ==
    /\ plan = NoPlan
    /\ total >= 1 /\ inst >= 1 /\ n >= MinInstallments
    /\ IF PlanValid(total, inst, n)
       THEN /\ plan' = PlanSave([status |-> st, total_amount |-> total,
                                 installment_amount |-> inst,
                                 number_of_installments |-> n, frequency |-> freq,
                                 first_payment_date |-> first,
                                 amount_paid |-> 0, installments_paid |-> 0], today)
            /\ resp' = [op |-> "create_plan", code |-> 201]
       ELSE /\ resp' = [op |-> "create_plan", code |-> 400]
            /\ UNCHANGED plan
    /\ UNCHANGED today
    /\ UNCHANGED nonPlan

\* PATCH /api/payment-plans/{id}/ with a status
UpdatePlan(st) ==
    /\ plan # NoPlan
    /\ plan' = PlanSave([plan EXCEPT !.status = st], today)
    /\ resp' = [op |-> "update_plan", code |-> 200]
    /\ UNCHANGED today
    /\ UNCHANGED nonPlan

\* RecordPayment without the status check.
RecordPayment_AnyStatus ==
    /\ plan # NoPlan
    /\ LET paid == [plan EXCEPT
                       !.amount_paid = plan.amount_paid + plan.installment_amount,
                       !.installments_paid = plan.installments_paid + 1]
       IN /\ plan' = PlanSave(PlanUpdateStatus(paid, today), today)
          /\ resp' = [op |-> "record_payment", code |-> 200]
    /\ UNCHANGED today
    /\ UNCHANGED nonPlan

\* POST /api/payment-plans/{id}/record_payment/
RecordPayment ==
    /\ plan # NoPlan
    /\ IF plan.status \notin {"active", "defaulted"}
       THEN /\ resp' = [op |-> "record_payment", code |-> 400]
            /\ UNCHANGED plan
       ELSE LET paid == [plan EXCEPT
                            !.amount_paid = plan.amount_paid + plan.installment_amount,
                            !.installments_paid = plan.installments_paid + 1]
            IN /\ plan' = PlanSave(PlanUpdateStatus(paid, today), today)
               /\ resp' = [op |-> "record_payment", code |-> 200]
    /\ UNCHANGED today
    /\ UNCHANGED nonPlan

\* Midnight passes.
PlanTick ==
    /\ today < PlanMaxDay
    /\ today' = today + 1
    /\ UNCHANGED <<plan, resp>>
    /\ UNCHANGED nonPlan

\* ------------------------------------------------------------- enrollments
EnrollmentStatuses == {"applied", "trial", "active", "withdrawn", "completed"}

EnrollAccountIds == 1..NumEnrollAccounts
Classes == 1..NumClasses
Genres == 1..NumGenres
Workers == 1..NumWorkers
EnrollmentIds == 1..Len(enrollments)

NoReq == [status |-> "none"]

\* class_instance.class_type.genre: class 1 is of genre 1, class 2 of genre 2, ...
GenreOf(c) == ((c - 1) % NumGenres) + 1

\* ClassInstance.current_enrollment_count over the table es
CurrentEnrollmentCount(es, c) ==
    Cardinality({k \in 1..Len(es) : es[k].class_instance = c /\ es[k].status = "active"})

\* IsFull counting every enrollment that is not withdrawn or completed.
IsFull_CountsAll(es, c) ==
    Cardinality({k \in 1..Len(es) : /\ es[k].class_instance = c
                                    /\ es[k].status \in {"applied", "trial", "active"}})
        >= maxStudents[c]

\* ClassInstance.is_full
IsFull(es, c) == CurrentEnrollmentCount(es, c) >= maxStudents[c]

\* HasValidEvaluation taking any evaluation of the genre, expired or not.
HasValidEvaluation_IgnoresExpiry(s, g, now) ==
    \E e \in evaluations : e.student = s /\ e.genre = g

\* EnrollmentSerializer.validate: an evaluation of the genre with
\* expires_on IS NULL or expires_on >= today
HasValidEvaluation(s, g, now) ==
    \E e \in evaluations :
        /\ e.student = s /\ e.genre = g
        /\ (~e.has_expiry \/ e.expires_on >= now)

\* Enrollment.clean: evaluations of the genre, excluding expires_on < Now().  Now()
\* is a timestamp: a date is less than it on that whole day but for the instant
\* of midnight.
HasValidEvaluationClean(s, g, now, midnight) ==
    \E e \in evaluations :
        /\ e.student = s /\ e.genre = g
        /\ ~(e.has_expiry /\ (e.expires_on < now \/ (e.expires_on = now /\ ~midnight)))

\* UniqueTogether switched off.
UniqueTogether_Off(es, a, c, self) == TRUE

\* Enrollment.Meta.unique_together: no row of es other than row self has the pair
UniqueTogether(es, a, c, self) ==
    \A k \in 1..Len(es) :
        k # self => ~(es[k].account = a /\ es[k].class_instance = c)

\* What the validation of a new enrollment answers: "" when it passes, else the
\* field the error is reported on.
EnrollmentError(a, c, now) ==
    IF ~UniqueTogether(enrollments, a, c, 0) THEN "non_field_errors"
    ELSE IF IsFull(enrollments, c) THEN "class_instance"
    ELSE IF ~HasValidEvaluation(accounts[a].student, GenreOf(c), now) THEN "account"
    ELSE ""

EnrollResp(op, code, err) == [op |-> op, code |-> code, error |-> err]

\* POST /api/enrollments/ handled without interleaving.
CreateEnrollment(a, c, st) ==
    /\ Len(enrollments) < MaxEnrollments
    /\ LET err == EnrollmentError(a, c, today)
       IN IF err = ""
          THEN /\ enrollments' = Append(enrollments,
                                    [account |-> a, class_instance |-> c, status |-> st])
               /\ resp' = EnrollResp("create_enrollment", 201, "")
          ELSE /\ resp' = EnrollResp("create_enrollment", 400, err)
               /\ UNCHANGED enrollments
    /\ UNCHANGED <<today, evaluations, maxStudents, req>>
    /\ UNCHANGED nonEnr

\* The add form of the administrative console: Enrollment.clean, then the
\* uniqueness check of the form.
AdminCreateEnrollment(a, c, st, midnight) ==
    /\ Len(enrollments) < MaxEnrollments
    /\ LET err == IF IsFull(enrollments, c) THEN "full"
                  ELSE IF ~HasValidEvaluationClean(accounts[a].student, GenreOf(c),
                                                   today, midnight)
                       THEN "evaluation"
                  ELSE IF ~UniqueTogether(enrollments, a, c, 0) THEN "unique"
                  ELSE ""
       IN IF err = ""
          THEN /\ enrollments' = Append(enrollments,
                                    [account |-> a, class_instance |-> c, status |-> st])
               /\ resp' = EnrollResp("admin_add_enrollment", 302, "")
          ELSE /\ resp' = EnrollResp("admin_add_enrollment", 200, err)
               /\ UNCHANGED enrollments
    /\ UNCHANGED <<today, evaluations, maxStudents, req>>
    /\ UNCHANGED nonEnr

\* PUT/PATCH /api/enrollments/{k}/: capacity and evaluation are not checked.
UpdateEnrollment(k, a, c, st) ==
    /\ k \in EnrollmentIds
    /\ IF UniqueTogether(enrollments, a, c, k)
       THEN /\ enrollments' = [enrollments EXCEPT
                                 ![k] = [account |-> a, class_instance |-> c, status |-> st]]
            /\ resp' = EnrollResp("update_enrollment", 200, "")
       ELSE /\ resp' = EnrollResp("update_enrollment", 400, "non_field_errors")
            /\ UNCHANGED enrollments
    /\ UNCHANGED <<today, evaluations, maxStudents, req>>
    /\ UNCHANGED nonEnr

\* DELETE /api/enrollments/{k}/
DeleteEnrollment(k) ==
    /\ k \in EnrollmentIds
    /\ enrollments' = RemoveAt(enrollments, k)
    /\ resp' = EnrollResp("delete_enrollment", 204, "")
    /\ UNCHANGED <<today, evaluations, maxStudents, req>>
    /\ UNCHANGED nonEnr

\* POST /api/evaluations/: expires_on may be left unset.
CreateEvaluation(s, g, has, exp) ==
    /\ Cardinality(evaluations) < MaxEvaluations
    /\ evaluations' = evaluations \cup
           {[student |-> s, genre |-> g, has_expiry |-> has,
             expires_on |-> IF has THEN exp ELSE 0]}
    /\ resp' = EnrollResp("create_evaluation", 201, "")
    /\ UNCHANGED <<today, maxStudents, enrollments, req>>
    /\ UNCHANGED nonEnr

\* PATCH /api/evaluations/{id}/ with an expires_on
UpdateEvaluation(e, has, exp) ==
    /\ e \in evaluations
    /\ evaluations' = (evaluations \ {e}) \cup
           {[e EXCEPT !.has_expiry = has, !.expires_on = IF has THEN exp ELSE 0]}
    /\ resp' = EnrollResp("update_evaluation", 200, "")
    /\ UNCHANGED <<today, maxStudents, enrollments, req>>
    /\ UNCHANGED nonEnr

\* POST /api/enrollments/, first half: the serializer validates the request
\* against the tables as they are now.
BeginCreateEnrollment(w, a, c, st) ==
    /\ req[w] = NoReq
    /\ LET err == EnrollmentError(a, c, today)
       IN IF err = ""
          THEN /\ req' = [req EXCEPT
                            ![w] = [account |-> a, class_instance |-> c, status |-> st]]
               /\ UNCHANGED resp
          ELSE /\ resp' = EnrollResp("create_enrollment", 400, err)
               /\ UNCHANGED req
    /\ UNCHANGED <<today, evaluations, maxStudents, enrollments>>
    /\ UNCHANGED nonEnr

\* FinishCreateEnrollment looking at the capacity once more before the INSERT.
FinishCreateEnrollment_Rechecks(w) ==
    /\ req[w] # NoReq
    /\ Len(enrollments) < MaxEnrollments
    /\ IF /\ UniqueTogether(enrollments, req[w].account, req[w].class_instance, 0)
          /\ ~IsFull(enrollments, req[w].class_instance)
       THEN /\ enrollments' = Append(enrollments, req[w])
            /\ resp' = EnrollResp("create_enrollment", 201, "")
       ELSE /\ resp' = EnrollResp("create_enrollment", 500, "integrity")
            /\ UNCHANGED enrollments
    /\ req' = [req EXCEPT ![w] = NoReq]
    /\ UNCHANGED <<today, evaluations, maxStudents>>
    /\ UNCHANGED nonEnr

\* POST /api/enrollments/, second half: the INSERT, which the unique constraint
\* of the table turns down with an IntegrityError.
FinishCreateEnrollment(w) ==
    /\ req[w] # NoReq
    /\ Len(enrollments) < MaxEnrollments
    /\ IF UniqueTogether(enrollments, req[w].account, req[w].class_instance, 0)
       THEN /\ enrollments' = Append(enrollments, req[w])
            /\ resp' = EnrollResp("create_enrollment", 201, "")
       ELSE /\ resp' = EnrollResp("create_enrollment", 500, "integrity")
            /\ UNCHANGED enrollments
    /\ req' = [req EXCEPT ![w] = NoReq]
    /\ UNCHANGED <<today, evaluations, maxStudents>>
    /\ UNCHANGED nonEnr

\* ---------------------------------------------- payments created concurrently
\* A row that takes no more than what the invoice has outstanding now.
PaymentRow_Capped(r) ==
    LET outstanding == AmountOutstanding(invoices[r.invoice])
    IN [invoice |-> r.invoice,
        amount |-> IF r.amount > outstanding THEN outstanding ELSE r.amount,
        status |-> r.status]

\* serializer.save(): the row made of the validated data
PaymentRow(r) == [invoice |-> r.invoice, amount |-> r.amount, status |-> r.status]

\* POST /api/payments/, first part: the serializer loads the invoice and
\* validates the amount against what that object has outstanding.
ValidatePayment(w, i, amt, st) ==
    /\ req[w] = NoReq
    /\ i \in InvoiceIds
    /\ amt >= MinPaymentAmount
    /\ IF PaymentValid(invoices[i], amt)
       THEN /\ req' = [req EXCEPT ![w] = [phase |-> "validated", invoice |-> i,
                                          amount |-> amt, status |-> st,
                                          obj |-> invoices[i]]]
            /\ UNCHANGED resp
       ELSE /\ resp' = [op |-> "create_payment", code |-> 400]
            /\ UNCHANGED req
    /\ UNCHANGED <<today, finVars, planVars, acctVars, evaluations, maxStudents, enrollments,
                   attVars, userVars, rateVars>>

\* Second part, Payment.save up to super().save(): the INSERT.
InsertPayment(w) ==
    /\ req[w] # NoReq /\ req[w].phase = "validated"
    /\ Len(payments) < MaxPayments
    /\ payments' = Append(payments, PaymentRow(req[w]))
    /\ req' = [req EXCEPT ![w].phase = "inserted"]
    /\ UNCHANGED <<today, invoices, resp, planVars, acctVars, evaluations, maxStudents,
                   enrollments, attVars, userVars, rateVars>>

\* Third part, the rest of Payment.save: for a completed payment the invoice
\* object loaded in the first part gets the sum of the completed payments and
\* is saved.
RecomputeInvoice(w) ==
    /\ req[w] # NoReq /\ req[w].phase = "inserted"
    /\ invoices' = PaymentSaveInvoices(payments, PaymentRow(req[w]), req[w].invoice,
                                       req[w].obj)
    /\ resp' = [op |-> "create_payment", code |-> 201]
    /\ req' = [req EXCEPT ![w] = NoReq]
    /\ UNCHANGED <<today, payments, planVars, acctVars, evaluations, maxStudents,
                   enrollments, attVars, userVars, rateVars>>

\* ------------------------------------------------------ accounts and roles
RoleKinds == {"student", "guardian", "billing_contact"}
PersonIds == 1..NumPersons
AccountIds == 1..MaxAccounts

NoAccount == [student |-> 0, guardian |-> 0, billing_contact |-> 0]

RoleTable(kind) ==
    IF kind = "student" THEN students
    ELSE IF kind = "guardian" THEN guardians
    ELSE billingContacts

\* Referenced with only the student reference protected.
Referenced_StudentOnly(kind, p) ==
    /\ kind = "student"
    /\ \E a \in DOMAIN accounts : accounts[a] # NoAccount /\ accounts[a][kind] = p

\* on_delete=PROTECT of Account.student, Account.guardian, Account.billing_contact:
\* some account references the role row of person p
Referenced(kind, p) ==
    \E a \in DOMAIN accounts : accounts[a] # NoAccount /\ accounts[a][kind] = p

AcctResp(op, code, kind) == [op |-> op, code |-> code, kind |-> kind]

\* POST /api/people/ (the person directory)
CreatePerson(p) ==
    /\ p \notin persons
    /\ persons' = persons \cup {p}
    /\ resp' = AcctResp("create_person", 201, "")
    /\ UNCHANGED <<today, students, guardians, billingContacts, accounts, billed>>
    /\ UNCHANGED nonAcct

\* POST /api/students/, /api/guardians/, /api/billing-contacts/: the person must
\* exist and hold no such role yet (one-to-one).
CreateRole(kind, p) ==
    /\ IF p \in persons /\ p \notin RoleTable(kind)
       THEN /\ students' = IF kind = "student" THEN students \cup {p} ELSE students
            /\ guardians' = IF kind = "guardian" THEN guardians \cup {p} ELSE guardians
            /\ billingContacts' = IF kind = "billing_contact"
                                  THEN billingContacts \cup {p} ELSE billingContacts
            /\ resp' = AcctResp("create_role", 201, kind)
       ELSE /\ resp' = AcctResp("create_role", 400, kind)
            /\ UNCHANGED <<students, guardians, billingContacts>>
    /\ UNCHANGED <<today, persons, accounts, billed>>
    /\ UNCHANGED nonAcct

\* DELETE of a role row: the collector raises ProtectedError, which no handler
\* turns into a response, while an account references the row.
DeleteRole(kind, p) ==
    /\ p \in RoleTable(kind)
    /\ IF Referenced(kind, p)
       THEN /\ resp' = AcctResp("delete_role", 500, kind)
            /\ UNCHANGED <<students, guardians, billingContacts>>
       ELSE /\ students' = IF kind = "student" THEN students \ {p} ELSE students
            /\ guardians' = IF kind = "guardian" THEN guardians \ {p} ELSE guardians
            /\ billingContacts' = IF kind = "billing_contact"
                                  THEN billingContacts \ {p} ELSE billingContacts
            /\ resp' = AcctResp("delete_role", 204, kind)
    /\ UNCHANGED <<today, persons, accounts, billed>>
    /\ UNCHANGED nonAcct

\* DELETE of a person: the role rows cascade, and each is protected as above.
DeletePerson(p) ==
    /\ p \in persons
    /\ IF \E kind \in RoleKinds : p \in RoleTable(kind) /\ Referenced(kind, p)
       THEN /\ resp' = AcctResp("delete_person", 500, "")
            /\ UNCHANGED <<persons, students, guardians, billingContacts>>
       ELSE /\ persons' = persons \ {p}
            /\ students' = students \ {p}
            /\ guardians' = guardians \ {p}
            /\ billingContacts' = billingContacts \ {p}
            /\ resp' = AcctResp("delete_person", 204, "")
    /\ UNCHANGED <<today, accounts, billed>>
    /\ UNCHANGED nonAcct

\* The three role ids of an account request must name existing rows.
AccountValid(s, g, b) == s \in students /\ g \in guardians /\ b \in billingContacts

\* POST /api/accounts/
CreateAccount(a, s, g, b) ==
    /\ accounts[a] = NoAccount
    /\ IF AccountValid(s, g, b)
       THEN /\ accounts' = [accounts EXCEPT
                               ![a] = [student |-> s, guardian |-> g, billing_contact |-> b]]
            /\ resp' = AcctResp("create_account", 201, "")
       ELSE /\ resp' = AcctResp("create_account", 400, "")
            /\ UNCHANGED accounts
    /\ UNCHANGED <<today, persons, students, guardians, billingContacts, billed>>
    /\ UNCHANGED nonAcct

\* PUT/PATCH /api/accounts/{a}/: the schema permits reassigning the roles.
UpdateAccount(a, s, g, b) ==
    /\ accounts[a] # NoAccount
    /\ IF AccountValid(s, g, b)
       THEN /\ accounts' = [accounts EXCEPT
                               ![a] = [student |-> s, guardian |-> g, billing_contact |-> b]]
            /\ resp' = AcctResp("update_account", 200, "")
       ELSE /\ resp' = AcctResp("update_account", 400, "")
            /\ UNCHANGED accounts
    /\ UNCHANGED <<today, persons, students, guardians, billingContacts, billed>>
    /\ UNCHANGED nonAcct

\* An invoice or a payment plan is created for the account.
BillAccount(a) ==
    /\ accounts[a] # NoAccount
    /\ a \notin billed
    /\ billed' = billed \cup {a}
    /\ resp' = AcctResp("bill_account", 201, "")
    /\ UNCHANGED <<today, persons, students, guardians, billingContacts, accounts>>
    /\ UNCHANGED nonAcct

\* DELETE /api/accounts/{a}/: Invoice.account and PaymentPlan.account protect the
\* account.
DeleteAccount(a) ==
    /\ accounts[a] # NoAccount
    /\ IF a \in billed
       THEN /\ resp' = AcctResp("delete_account", 500, "")
            /\ UNCHANGED accounts
       ELSE /\ accounts' = [accounts EXCEPT ![a] = NoAccount]
            /\ resp' = AcctResp("delete_account", 204, "")
    /\ UNCHANGED <<today, persons, students, guardians, billingContacts, billed>>
    /\ UNCHANGED nonAcct

\* ------------------------------------------------------------ attendance
AttStudents == 1..NumAttStudents
AttClasses == 1..NumAttClasses
AttendanceIds == 1..Len(attendance)

\* A field the request does not carry: id 0, and NoDate for the date.
NoDate == 0 - 1

\* enrollment.account.student
EnrollmentStudent(e) == accounts[enrollments[e].account].student

MatchingEnrollments_AnyStatus(s, c) ==
    {e \in EnrollmentIds :
        EnrollmentStudent(e) = s /\ enrollments[e].class_instance = c}

\* Enrollment.objects.get(account__student=s, class_instance=c,
\*                        status__in=['trial', 'active']): the rows it matches
MatchingEnrollments(s, c) ==
    {e \in EnrollmentIds :
        /\ EnrollmentStudent(e) = s
        /\ enrollments[e].class_instance = c
        /\ enrollments[e].status \in {"trial", "active"}}

\* AttendanceRecord.Meta.unique_together: no row other than row self has the triple
AttendanceUnique(c, s, d, self) ==
    \A k \in AttendanceIds :
        k # self => ~(/\ attendance[k].class_instance = c
                      /\ attendance[k].student = s
                      /\ attendance[k].date = d)

\* AttendanceRecordSerializer.validate over the fields the request carries:
\* the error field ("" when it passes) and the enrollment of the validated data
AttendanceValidate(s, c, d, e) ==
    LET looked == e = 0 /\ s # 0 /\ c # 0
        found == IF looked THEN MatchingEnrollments(s, c) ELSE {}
        e2 == IF looked /\ Cardinality(found) = 1 THEN CHOOSE x \in found : TRUE ELSE e
    IN IF d # NoDate /\ d > today THEN [error |-> "date", enrollment |-> 0]
       ELSE IF c # 0 /\ c \in cancelledClasses
            THEN [error |-> "class_instance", enrollment |-> 0]
       ELSE IF looked /\ found = {} THEN [error |-> "not_enrolled", enrollment |-> 0]
       ELSE IF looked /\ Cardinality(found) > 1
            THEN [error |-> "multiple", enrollment |-> 0]
       ELSE IF e2 # 0 /\ s # 0 /\ EnrollmentStudent(e2) # s
            THEN [error |-> "enrollment", enrollment |-> 0]
       ELSE IF e2 # 0 /\ c # 0 /\ enrollments[e2].class_instance # c
            THEN [error |-> "enrollment", enrollment |-> 0]
       ELSE [error |-> "", enrollment |-> e2]

\* What the serializer answers to a request with all of student, class_instance
\* and date: the enrollment field is required, then the unique validator, then
\* validate.
AttendanceError(s, c, d, e, self) ==
    IF e = 0 THEN "required"
    ELSE IF ~AttendanceUnique(c, s, d, self) THEN "non_field_errors"
    ELSE AttendanceValidate(s, c, d, e).error

\* POST /api/attendance/; e = 0 is a request without an enrollment.
CreateAttendance(s, c, d, e) ==
    /\ Len(attendance) < MaxAttendance
    /\ LET err == AttendanceError(s, c, d, e, 0)
       IN IF err = ""
          THEN /\ attendance' = Append(attendance,
                                   [student |-> s, class_instance |-> c, date |-> d,
                                    enrollment |-> AttendanceValidate(s, c, d, e).enrollment])
               /\ resp' = EnrollResp("create_attendance", 201, "")
          ELSE /\ resp' = EnrollResp("create_attendance", 400, err)
               /\ UNCHANGED attendance
    /\ UNCHANGED <<today, cancelledClasses>>
    /\ UNCHANGED nonAtt

\* PUT /api/attendance/{k}/: every field is required again.
UpdateAttendance(k, s, c, d, e) ==
    /\ k \in AttendanceIds
    /\ LET err == AttendanceError(s, c, d, e, k)
       IN IF err = ""
          THEN /\ attendance' = [attendance EXCEPT
                                   ![k] = [student |-> s, class_instance |-> c, date |-> d,
                                           enrollment |-> e]]
               /\ resp' = EnrollResp("update_attendance", 200, "")
          ELSE /\ resp' = EnrollResp("update_attendance", 400, err)
               /\ UNCHANGED attendance
    /\ UNCHANGED <<today, cancelledClasses>>
    /\ UNCHANGED nonAtt

\* PATCH /api/attendance/{k}/: a field may be left out (0, NoDate).  The unique
\* validator fills the fields left out from the stored row; validate sees only
\* the fields sent; the fields sent, and an enrollment validate looked up, are
\* written to the row.
PatchAttendance(k, s, c, d, e) ==
    /\ k \in AttendanceIds
    /\ LET row == attendance[k]
           ms == IF s # 0 THEN s ELSE row.student
           mc == IF c # 0 THEN c ELSE row.class_instance
           md == IF d # NoDate THEN d ELSE row.date
           v == AttendanceValidate(s, c, d, e)
           err == IF ~AttendanceUnique(mc, ms, md, k) THEN "non_field_errors"
                  ELSE v.error
       IN IF err = ""
          THEN /\ attendance' = [attendance EXCEPT
                                   ![k] = [student |-> ms, class_instance |-> mc,
                                           date |-> md,
                                           enrollment |-> IF v.enrollment # 0
                                                          THEN v.enrollment
                                                          ELSE row.enrollment]]
               /\ resp' = EnrollResp("patch_attendance", 200, "")
          ELSE /\ resp' = EnrollResp("patch_attendance", 400, err)
               /\ UNCHANGED attendance
    /\ UNCHANGED <<today, cancelledClasses>>
    /\ UNCHANGED nonAtt

\* DELETE /api/attendance/{k}/
DeleteAttendance(k) ==
    /\ k \in AttendanceIds
    /\ attendance' = RemoveAt(attendance, k)
    /\ resp' = EnrollResp("delete_attendance", 204, "")
    /\ UNCHANGED <<today, cancelledClasses>>
    /\ UNCHANGED nonAtt

\* AttendanceRecord.clean as the add form of the administrative console runs it,
\* with an enrollment chosen (the form field is required), then the uniqueness
\* check of the form.
AdminCreateAttendance(s, c, d, e) ==
    /\ Len(attendance) < MaxAttendance
    /\ e \in EnrollmentIds
    /\ LET err == IF d > today THEN "date"
                  ELSE IF c \in cancelledClasses THEN "class_instance"
                  ELSE IF EnrollmentStudent(e) # s THEN "enrollment"
                  ELSE IF enrollments[e].class_instance # c THEN "enrollment"
                  ELSE IF ~AttendanceUnique(c, s, d, 0) THEN "unique"
                  ELSE ""
       IN IF err = ""
          THEN /\ attendance' = Append(attendance,
                                   [student |-> s, class_instance |-> c, date |-> d,
                                    enrollment |-> e])
               /\ resp' = EnrollResp("admin_add_attendance", 302, "")
          ELSE /\ resp' = EnrollResp("admin_add_attendance", 200, err)
               /\ UNCHANGED attendance
    /\ UNCHANGED <<today, cancelledClasses>>
    /\ UNCHANGED nonAtt

\* ------------------------------------------- authentication and permission
Methods == {"GET", "HEAD", "OPTIONS", "TRACE", "POST", "PUT", "PATCH", "DELETE"}
SafeMethods == {"GET", "HEAD", "OPTIONS", "TRACE"}
Roles == {"admin", "staff", "teacher", "parent", "guardian", "student"}

\* The values a CSRF header or cookie may carry, the empty string among them.
TokenValues == {"", "a", "b"}
\* A header or cookie: absent, or present with a value.
Carried == {[present |-> FALSE, value |-> ""]}
              \cup {[present |-> TRUE, value |-> v] : v \in TokenValues}
\* The access_token cookie: absent, a token that validates, one that does not.
AccessCookies == {"absent", "valid", "invalid"}

\* enforce_csrf without the test for an empty token.
EnforceCsrf_EmptyAllowed(method, header, cookie) ==
    \/ method \in SafeMethods
    \/ LET csrf_token == IF header.present THEN header.value ELSE ""
           expected_token == IF cookie.present THEN cookie.value ELSE ""
       IN ~(csrf_token # expected_token)

\* CookieJWTAuthentication.enforce_csrf: TRUE when it returns, FALSE when it
\* raises PermissionDenied
EnforceCsrf(method, header, cookie) ==
    \/ method \in SafeMethods
    \/ LET expected_token == IF cookie.present THEN cookie.value ELSE ""
       IN ~(\/ ~header.present
            \/ header.value = ""
            \/ header.value # expected_token)

\* CookieJWTAuthentication.authenticate
AuthenticateResult(r) ==
    IF r.access = "absent" THEN "none"
    ELSE IF r.access = "invalid" THEN "authentication_failed"
    ELSE IF ~EnforceCsrf(r.method, r.header, r.cookie) THEN "permission_denied"
    ELSE "authenticated"

\* A request reaches the authentication class.
Authenticate(method, access, header, cookie) ==
    /\ req' = [kind |-> "authenticate", method |-> method, access |-> access,
               header |-> header, cookie |-> cookie]
    /\ resp' = [op |-> "authenticate", result |-> AuthenticateResult(req')]
    /\ UNCHANGED nonReq

\* Paths are sequences of pieces; a prefix test is a test on the pieces.
StartsWith(path, prefix) ==
    /\ Len(prefix) <= Len(path)
    /\ SubSeq(path, 1, Len(prefix)) = prefix

ApiPrefix(name) == <<"/", "api", "/", name, "/">>

\* role_permissions of StrictAPIAccess.has_permission
RolePermissions(role) ==
    CASE role = "admin" ->
           [allowed_methods |-> {"GET", "POST", "PUT", "PATCH", "DELETE"},
            blocked_endpoints |-> {}]
      [] role = "staff" ->
           [allowed_methods |-> {"GET", "POST", "PUT", "PATCH"},
            blocked_endpoints |-> {<<"/", "api", "/", "users", "/", "delete">>,
                                   <<"/", "api", "/", "financial", "/", "delete">>}]
      [] role = "teacher" ->
           [allowed_methods |-> {"GET", "POST", "PUT"},
            blocked_endpoints |-> {ApiPrefix("users"), ApiPrefix("financial"),
                                   ApiPrefix("accounts")}]
      [] role = "parent" ->
           [allowed_methods |-> {"GET"},
            blocked_endpoints |-> {ApiPrefix("users"), ApiPrefix("guardians"),
                                   ApiPrefix("students"), ApiPrefix("accounts"),
                                   ApiPrefix("people"), ApiPrefix("scheduling")}]
      [] role = "student" ->
           [allowed_methods |-> {"GET"},
            blocked_endpoints |-> {ApiPrefix("users"), ApiPrefix("guardians"),
                                   ApiPrefix("students"), ApiPrefix("accounts"),
                                   ApiPrefix("people"), ApiPrefix("financial"),
                                   ApiPrefix("scheduling")}]

MatrixRoles == {"admin", "staff", "teacher", "parent", "student"}

\* role_permissions.get with the administrator policy as the default.
RoleConfig_DefaultAdmin(role) ==
    IF role \in MatrixRoles THEN RolePermissions(role) ELSE RolePermissions("admin")

\* role_permissions.get(user_role, role_permissions['student'])
RoleConfig(role) ==
    IF role \in MatrixRoles THEN RolePermissions(role) ELSE RolePermissions("student")

\* StrictAPIAccess.has_permission
HasPermission(r) ==
    /\ r.authenticated
    /\ r.method \in RoleConfig(r.role).allowed_methods
    /\ \A blocked \in RoleConfig(r.role).blocked_endpoints : ~StartsWith(r.path, blocked)

\* A request reaches the permission class.
CheckPermission(authenticated, role, method, path) ==
    /\ req' = [kind |-> "permission", authenticated |-> authenticated, role |-> role,
               method |-> method, path |-> path]
    /\ resp' = [op |-> "has_permission", granted |-> HasPermission(req')]
    /\ UNCHANGED nonReq

\* ------------------------------------------------------------------- users
UserIds == 1..MaxUsers

\* A deleted row: ids are not given out again.
NoUser == [role |-> "", is_superuser |-> FALSE, is_active |-> FALSE]

\* User.is_admin
IsAdmin(u) == u.role = "admin" \/ u.is_superuser

\* User.is_staff_member
IsStaffMember(u) == u.role \in {"admin", "staff", "teacher"} \/ u.is_superuser

\* User.is_parent_user
IsParentUser(u) == u.role = "parent"

Existing == {k \in DOMAIN users : users[k] # NoUser}

\* get_queryset testing is_parent_user alone.
GetQueryset_ParentOnly(user_id) ==
    LET user == users[user_id]
    IN IF IsParentUser(user)
       THEN {k \in Existing : k = user_id}
       ELSE IF IsStaffMember(user) /\ ~IsAdmin(user)
       THEN {k \in Existing : users[k].role # "admin"}
       ELSE Existing

\* UserViewSet.get_queryset: the ids of the rows the caller's queryset holds
GetQueryset(user_id) ==
    LET user == users[user_id]
    IN IF IsParentUser(user) /\ ~IsStaffMember(user)
       THEN {k \in Existing : k = user_id}
       ELSE IF IsStaffMember(user) /\ ~IsAdmin(user)
       THEN {k \in Existing : users[k].role # "admin"}
       ELSE Existing

\* IsAuthenticated: the token names a row that exists and is active.
Authenticated(caller) == caller \in Existing /\ users[caller].is_active

UserReq(kind, caller, id) == [kind |-> kind, caller |-> caller, id |-> id]
UserResp(op, code, ids, body) == [op |-> op, code |-> code, ids |-> ids, body |-> body]

\* POST /api/auth/register/ (open to everyone; the role is the caller's choice)
Register(role) ==
    /\ Len(users) < MaxUsers
    /\ users' = Append(users, [role |-> role, is_superuser |-> FALSE, is_active |-> TRUE])
    /\ req' = UserReq("register", 0, Len(users'))
    /\ resp' = UserResp("register", 201, {Len(users')}, {"user", "tokens"})
    /\ UNCHANGED nonUser

\* A superuser is created outside the API; role takes its default.
CreateSuperuser ==
    /\ Len(users) < MaxUsers
    /\ users' = Append(users, [role |-> "staff", is_superuser |-> TRUE, is_active |-> TRUE])
    /\ req' = UserReq("createsuperuser", 0, Len(users'))
    /\ resp' = UserResp("createsuperuser", 0, {Len(users')}, {})
    /\ UNCHANGED nonUser

\* GET /api/users/
ListUsers(caller) ==
    /\ req' = UserReq("list", caller, 0)
    /\ resp' = IF ~Authenticated(caller) THEN UserResp("list_users", 401, {}, {})
               ELSE UserResp("list_users", 200, GetQueryset(caller), {})
    /\ UNCHANGED <<nonUser, userVars>>

\* GET /api/users/{k}/
RetrieveUser(caller, k) ==
    /\ req' = UserReq("retrieve", caller, k)
    /\ resp' = IF ~Authenticated(caller) THEN UserResp("retrieve_user", 401, {}, {})
               ELSE IF k \notin GetQueryset(caller) THEN UserResp("retrieve_user", 404, {}, {})
               ELSE UserResp("retrieve_user", 200, {k}, {})
    /\ UNCHANGED <<nonUser, userVars>>

\* PUT /api/users/{k}/: role and is_active are writable, is_superuser is not a
\* field of the serializer.
UpdateUser(caller, k, role, is_active) ==
    /\ req' = UserReq("update", caller, k)
    /\ IF ~Authenticated(caller)
       THEN /\ resp' = UserResp("update_user", 401, {}, {})
            /\ UNCHANGED users
       ELSE IF k \notin GetQueryset(caller)
       THEN /\ resp' = UserResp("update_user", 404, {}, {})
            /\ UNCHANGED users
       ELSE /\ users' = [users EXCEPT ![k].role = role, ![k].is_active = is_active]
            /\ resp' = UserResp("update_user", 200, {k}, {})
    /\ UNCHANGED nonUser

\* PUT/PATCH /api/users/update_profile/: UserSerializer over request.user, role
\* and is_active being writable fields of it.
UpdateProfile(caller, role, is_active) ==
    /\ req' = UserReq("update_profile", caller, caller)
    /\ IF ~Authenticated(caller)
       THEN /\ resp' = UserResp("update_profile", 401, {}, {})
            /\ UNCHANGED users
       ELSE /\ users' = [users EXCEPT ![caller].role = role, ![caller].is_active = is_active]
            /\ resp' = UserResp("update_profile", 200, {caller}, {})
    /\ UNCHANGED nonUser

\* DELETE /api/users/{k}/
DeleteUser(caller, k) ==
    /\ req' = UserReq("delete", caller, k)
    /\ IF ~Authenticated(caller)
       THEN /\ resp' = UserResp("delete_user", 401, {}, {})
            /\ UNCHANGED users
       ELSE IF k \notin GetQueryset(caller)
       THEN /\ resp' = UserResp("delete_user", 404, {}, {})
            /\ UNCHANGED users
       ELSE /\ users' = [users EXCEPT ![k] = NoUser]
            /\ resp' = UserResp("delete_user", 204, {k}, {})
    /\ UNCHANGED nonUser

LoginResp(code, body, cookies) ==
    [op |-> "login", code |-> code, body |-> body, cookies |-> cookies]

\* POST /api/auth/login/ is routed to cookie_login. username 0 stands for a
\* request without username or password; the tokens go into cookies and the
\* body holds 'user' and 'message'. For an inactive user the answer depends on
\* the authentication backend in use: 401 when authenticate() refuses inactive
\* users, 403 when it returns them.
Login(username, password_ok) ==
    /\ req' = [kind |-> "login", caller |-> 0, id |-> username, password_ok |-> password_ok]
    /\ IF username = 0
       THEN resp' = LoginResp(400, {"error"}, {})
       ELSE IF username \notin Existing \/ ~password_ok
       THEN resp' = LoginResp(401, {"error"}, {})
       ELSE IF ~users[username].is_active
       THEN \E code \in {401, 403} : resp' = LoginResp(code, {"error"}, {})
       ELSE resp' = LoginResp(200, {"user", "message"}, {"access_token", "refresh_token"})
    /\ UNCHANGED <<nonUser, userVars>>

\* ------------------------------------------ rate limiting per endpoint class
\* The path classes _is_rate_limited and process_request tell apart.
PathClasses == {"login", "register", "general", "static"}

\* The seconds at which requests come in, all within one hour.
SecurityTimes == {0, 61, 122}

LoginCeiling == 3
RegisterCeiling == 3
AuthenticatedCeiling == 100
AnonymousCeiling == 20
MinuteSeconds == 60
HourSeconds == 3600

\* max_requests of _is_rate_limited
CeilingOf(path, authenticated) ==
    IF path = "login" THEN LoginCeiling
    ELSE IF path = "register" THEN RegisterCeiling
    ELSE IF authenticated THEN AuthenticatedCeiling
    ELSE AnonymousCeiling

\* window_duration of _is_rate_limited
WindowOf(path) == IF path = "login" THEN MinuteSeconds ELSE HourSeconds

\* request_counts[client_id]: a new entry starts with count 0 at this moment;
\* the model follows one client, whose entry is cache.
ClientData == IF cache = <<>> THEN [count |-> 0, window_start |-> clock] ELSE cache

\* What the model remembers of the requests let through: how many general
\* requests in all, how many login requests at each second, and the seconds at
\* which a window began.
NoneAdmitted == [general |-> 0, login |-> [t \in SecurityTimes |-> 0], starts |-> {}]

\* config.security.RateLimitMiddleware.process_request for the client of req
SecurityProcessRequest(path) ==
    /\ ClientData.count < MaxSecurityCount
    /\ IF path = "static"
       THEN /\ resp' = [op |-> "security_rate_limit", path |-> path, code |-> 0]
            /\ UNCHANGED <<cache, recent>>
       ELSE LET client_data == ClientData
                reset == clock - client_data.window_start > WindowOf(path)
                count == IF reset THEN 1 ELSE client_data.count + 1
                limited == ~reset /\ count > CeilingOf(path, req.authenticated)
            IN /\ cache' = [count |-> count,
                            window_start |-> IF reset THEN clock
                                             ELSE client_data.window_start]
               /\ resp' = [op |-> "security_rate_limit", path |-> path,
                           code |-> IF limited THEN 403 ELSE 0]
               /\ recent' =
                    [general |-> IF path = "general" /\ ~limited
                                 THEN recent.general + 1 ELSE recent.general,
                     login |-> IF path = "login" /\ ~limited
                               THEN [recent.login EXCEPT ![clock] = @ + 1]
                               ELSE recent.login,
                     starts |-> recent.starts \cup {cache'.window_start}]
    /\ UNCHANGED <<clock, req>>
    /\ UNCHANGED <<today, finVars, planVars, acctVars, evaluations, maxStudents,
                   enrollments, attVars, userVars>>

\* Time passes until a later one of the seconds looked at.
SecurityAdvance(t) ==
    /\ t > clock
    /\ clock' = t
    /\ UNCHANGED <<cache, recent, req, resp>>
    /\ UNCHANGED <<today, finVars, planVars, acctVars, evaluations, maxStudents,
                   enrollments, attVars, userVars>>

\* -------------------------------------------------------- security monitoring
MonitorClients == 1..NumClients
Severities == {"low", "medium", "high", "critical"}

\* The seconds looked at: around the end of a block placed at 0 or at 1800.
MonitorTimes == {0, 1800, 3599, 3600, 5400}

BlockThreshold == 20
AlertThreshold == 10
BlockDuration == 3600

\* severity_scores of _handle_anomalies
SeverityScores(severity) ==
    CASE severity = "low" -> 1
      [] severity = "medium" -> 3
      [] severity = "high" -> 5
      [] severity = "critical" -> 10
      [] OTHER -> 1

\* the loop of _handle_anomalies over the list anomalies
RECURSIVE TotalSeverity(_)
TotalSeverity(anomalies) ==
    IF anomalies = <<>> THEN 0
    ELSE SeverityScores(Head(anomalies)) + TotalSeverity(Tail(anomalies))

\* The scores of all clients together.
RECURSIVE ScoreSum(_)
ScoreSum(cs) ==
    IF cs = {} THEN 0
    ELSE LET c == CHOOSE d \in cs : TRUE IN recent.score[c] + ScoreSum(cs \ {c})

\* The lists of anomalies one request can be flagged with.
AnomalyLists == UNION {[1..n -> Severities] : n \in 1..MaxAnomalies}

\* cache.get("blocked_client:<c>") is not None: the key is there until the
\* second its timeout ends.
KeyLive(c) == c \in DOMAIN cache /\ clock < cache[c]

\* BlockClient keeping the key for twice the duration.
BlockClient_Twice(c, duration) == [k \in DOMAIN cache \cup {c} |->
                                IF k = c THEN clock + duration + duration ELSE cache[k]]

\* SecurityMonitor._block_client
BlockClient(c, duration) == [k \in DOMAIN cache \cup {c} |->
                                IF k = c THEN clock + duration ELSE cache[k]]

\* SecurityMonitor._handle_anomalies; recent is anomaly_scores with, beside each
\* score, the second of the client's last block.
HandleAnomalies(c, anomalies) ==
    /\ ScoreSum(MonitorClients) < MaxScore
    /\ LET total_severity == TotalSeverity(anomalies)
           client_score == recent.score[c] + total_severity
       IN /\ recent' = [score |-> [recent.score EXCEPT ![c] = client_score],
                        blocked_at |-> IF client_score >= BlockThreshold
                                       THEN [recent.blocked_at EXCEPT ![c] = {clock}]
                                       ELSE recent.blocked_at]
          /\ cache' = IF client_score >= BlockThreshold
                      THEN BlockClient(c, BlockDuration) ELSE cache
          /\ resp' = [op |-> "handle_anomalies", client |-> c, anomalies |-> anomalies,
                      alert |-> IF client_score >= BlockThreshold
                                THEN "Critical Security Threat Detected"
                                ELSE IF client_score >= AlertThreshold
                                THEN "High Risk Activity Detected"
                                ELSE "none"]
    /\ UNCHANGED <<clock, req>>
    /\ UNCHANGED <<today, finVars, planVars, acctVars, evaluations, maxStudents,
                   enrollments, attVars, userVars>>

\* SecurityMonitor.is_client_blocked
IsClientBlocked(c) ==
    /\ resp' = [op |-> "is_client_blocked", client |-> c, blocked |-> KeyLive(c)]
    /\ UNCHANGED <<clock, cache, recent, req>>
    /\ UNCHANGED <<today, finVars, planVars, acctVars, evaluations, maxStudents,
                   enrollments, attVars, userVars>>

\* Time passes until a later one of the seconds looked at.
MonitorAdvance(t) ==
    /\ t > clock
    /\ clock' = t
    /\ UNCHANGED <<cache, recent, req, resp>>
    /\ UNCHANGED <<today, finVars, planVars, acctVars, evaluations, maxStudents,
                   enrollments, attVars, userVars>>

\* ----------------------------------------------------------- account balance
BalanceAccountIds == 1..NumBalanceAccounts

\* account.invoices.all(): the ids of the invoices of account a
InvoicesOf(a) == {i \in InvoiceIds : invoices[i].account = a}

\* POST /api/invoices/ for account a; the row carries its account.
CreateAccountInvoice(a, st, total, due) ==
    /\ a \in DOMAIN accounts
    /\ Len(invoices) < MaxBalanceInvoices
    /\ LET obj == [account |-> a, status |-> st, total |-> total, amount_paid |-> 0,
                   due_date |-> due]
       IN /\ invoices' = Append(invoices, InvoiceSave(obj, today))
          /\ resp' = [op |-> "create_invoice", code |-> 201]
    /\ billed' = billed \cup {a}
    /\ UNCHANGED <<today, payments, plan, persons, students, guardians, billingContacts,
                   accounts, enrVars, attVars, userVars, rateVars>>

BalanceResp(code, a, body) == [op |-> "balance", code |-> code, account |-> a, body |-> body]

\* GET /api/accounts/{a}/balance/: the loop over the invoices reads
\* invoice.total_amount, which Invoice does not have (its field is total), so
\* the first invoice ends the request with AttributeError, a 500; with no
\* invoice the sums stay 0.
Balance(a) ==
    /\ resp' = IF a \notin DOMAIN accounts THEN BalanceResp(404, a, <<>>)
               ELSE IF InvoicesOf(a) # {} THEN BalanceResp(500, a, <<>>)
               ELSE LET total_invoiced == 0
                        total_paid == 0
                        balance == total_invoiced - total_paid
                    IN BalanceResp(200, a, [total_invoiced |-> total_invoiced,
                                            total_paid |-> total_paid,
                                            balance |-> balance,
                                            has_outstanding |-> balance > 0])
    /\ UNCHANGED <<today, finVars>>
    /\ UNCHANGED nonFin

\* ------------------------------------------------------------ rate limiting
ClientIps == 1..NumClients

\* int(time.time() // 60)
WindowSeconds == 60
Minute(t) == t \div WindowSeconds

\* RATELIMIT_CACHE_TIMEOUT, as it is unless configured
CacheTimeout == 60

\* A key without the minute in it.
MinuteKey_NoMinute(client_ip, t) == <<client_ip, 0>>

\* minute_key = f'{cache_key}_{int(time.time() // 60)}'
MinuteKey(client_ip, t) == <<client_ip, Minute(t)>>

\* cache.get(key, 0): an entry past its timeout is gone
CacheGet(key) ==
    IF key \in DOMAIN cache /\ clock < cache[key].expires THEN cache[key].count ELSE 0

\* cache.set(key, value, timeout)
CacheSet(key, value, timeout) ==
    [k \in DOMAIN cache \cup {key} |->
        IF k = key THEN [count |-> value, expires |-> clock + timeout] ELSE cache[k]]

\* RateLimitMiddleware.process_request with rate limiting enabled and the cache
\* answering; api tells whether the path starts with /api/
ProcessRequest(client_ip, api) ==
    /\ Len(recent) < MaxSent
    /\ LET minute_key == MinuteKey(client_ip, clock)
           requests_count == CacheGet(minute_key)
           limited == api /\ requests_count >= RateLimitApiCalls
       IN /\ cache' = IF api /\ ~limited
                      THEN CacheSet(minute_key, requests_count + 1, CacheTimeout)
                      ELSE cache
          /\ resp' = [op |-> "process_request", code |-> IF limited THEN 429 ELSE 0]
          /\ recent' = Append(recent, [time |-> clock, client_ip |-> client_ip,
                                       api |-> api, limited |-> limited])
    /\ UNCHANGED <<clock, req>>
    /\ UNCHANGED nonRate

\* Time passes.
AdvanceClock ==
    /\ clock + ClockStep <= MaxClock
    /\ clock' = clock + ClockStep
    /\ UNCHANGED <<cache, recent, req, resp>>
    /\ UNCHANGED nonRate

vars == <<today, invoices, payments, plan, persons, students, guardians, billingContacts,
          accounts, billed, evaluations, maxStudents, enrollments, req, attendance,
          cancelledClasses, users, clock, cache, recent, resp>>

Moneys == 0..MaxMoney
Days == 0..MaxDay

\* Empty tables.
NoFin == invoices = <<>> /\ payments = <<>>
NoPlans == plan = NoPlan
NoAccounts ==
    /\ persons = {} /\ students = {} /\ guardians = {} /\ billingContacts = {}
    /\ accounts = <<>> /\ billed = {}
NoEnrollments ==
    /\ evaluations = {} /\ maxStudents = <<>> /\ enrollments = <<>> /\ req = <<>>
NoAttendance == attendance = <<>> /\ cancelledClasses = {}
NoUsers == users = <<>>
NoRate == clock = 0 /\ cache = <<>> /\ recent = <<>>

Init ==
    /\ NoAttendance /\ NoUsers /\ NoRate
    /\ today = 0
    /\ resp = NoResp
    /\ NoFin /\ NoPlans /\ NoAccounts /\ NoEnrollments

NextFin ==
    \/ \E st \in InvoiceStatuses, total \in Moneys, due \in Days :
          CreateInvoice(st, total, due)
    \/ \E i \in InvoiceIds, st \in InvoiceStatuses, total \in Moneys, due \in Days :
          UpdateInvoice(i, st, total, due)
    \/ \E i \in InvoiceIds : SendInvoice(i)
    \/ \E i \in InvoiceIds, amt \in Moneys, st \in PaymentStatuses :
          CreatePayment(i, amt, st)
    \/ \E k \in PaymentIds, i \in InvoiceIds, amt \in Moneys, st \in PaymentStatuses :
          UpdatePayment(k, i, amt, st)
    \/ \E k \in PaymentIds : DeletePayment(k)
    \/ Tick

\* Invoices and payments, requests handled one at a time.
SpecFin == Init /\ [][NextFin]_vars

NextPayments ==
    \/ \E st \in InvoiceStatuses, total \in Moneys, due \in Days :
          CreateInvoice(st, total, due)
    \/ \E i \in InvoiceIds, amt \in Moneys, st \in PaymentStatuses :
          CreatePayment(i, amt, st)
    \/ \E k \in PaymentIds, i \in InvoiceIds, amt \in Moneys, st \in PaymentStatuses :
          UpdatePayment(k, i, amt, st)

\* Payments created and updated one at a time against invoices that, once
\* created, are not edited.
SpecPayments == Init /\ [][NextPayments]_vars

PlanTotals == 1..MaxPlanTotal
InstallmentAmounts == 1..MaxInstallmentAmount
InstallmentCounts == MinInstallments..MaxInstallments
\* 31 January and 1 February of the epoch year
FirstPaymentDates == {30, 31}

NextPlan ==
    \/ \E st \in PlanStatuses, total \in PlanTotals, inst \in InstallmentAmounts,
          n \in InstallmentCounts, freq \in Frequencies,
          first \in FirstPaymentDates :
          CreatePlan(st, total, inst, n, freq, first)
    \/ \E st \in PlanStatuses : UpdatePlan(st)
    \/ RecordPayment
    \/ PlanTick

InitPlan ==
    /\ NoAttendance /\ NoUsers /\ NoRate
    /\ today = PlanFirstDay
    /\ resp = NoResp
    /\ NoFin /\ NoPlans /\ NoAccounts /\ NoEnrollments

\* One payment plan, requests handled one at a time.
SpecPlan == InitPlan /\ [][NextPlan]_vars

NextPlanPayments ==
    \/ \E st \in PlanStatuses, total \in PlanTotals, inst \in InstallmentAmounts,
          n \in InstallmentCounts, freq \in Frequencies,
          first \in FirstPaymentDates :
          CreatePlan(st, total, inst, n, freq, first)
    \/ RecordPayment
    \/ PlanTick

\* One payment plan that, once created, only has payments recorded.
SpecPlanPayments == InitPlan /\ [][NextPlanPayments]_vars

\* The person who is guardian and billing contact of every account below.
EnrollGuardian == NumEnrollAccounts + 1

\* Account a is that of student a.
EnrollAccounts ==
    /\ persons = 1..EnrollGuardian
    /\ students = EnrollAccountIds
    /\ guardians = {EnrollGuardian}
    /\ billingContacts = {EnrollGuardian}
    /\ accounts = [a \in EnrollAccountIds |->
                      [student |-> a, guardian |-> EnrollGuardian,
                       billing_contact |-> EnrollGuardian]]
    /\ billed = {}

InitEnroll ==
    /\ NoAttendance /\ NoUsers /\ NoRate
    /\ today = 0
    /\ resp = NoResp
    /\ NoFin /\ NoPlans /\ EnrollAccounts
    /\ evaluations = {}
    /\ maxStudents \in [Classes -> 1..MaxCapacity]
    /\ enrollments = <<>>
    /\ req = [w \in Workers |-> NoReq]

NextEnroll ==
    \/ \E a \in EnrollAccountIds, c \in Classes, st \in EnrollmentStatuses :
          CreateEnrollment(a, c, st)
    \/ \E a \in EnrollAccountIds, c \in Classes, st \in EnrollmentStatuses,
          midnight \in BOOLEAN :
          AdminCreateEnrollment(a, c, st, midnight)
    \/ \E k \in EnrollmentIds, a \in EnrollAccountIds, c \in Classes,
          st \in EnrollmentStatuses :
          UpdateEnrollment(k, a, c, st)
    \/ \E k \in EnrollmentIds : DeleteEnrollment(k)
    \/ \E s \in EnrollAccountIds, g \in Genres, has \in BOOLEAN, exp \in Days :
          CreateEvaluation(s, g, has, exp)
    \/ \E e \in evaluations, has \in BOOLEAN, exp \in Days : UpdateEvaluation(e, has, exp)
    \/ Tick

\* Enrollments and evaluations, requests handled one at a time.
SpecEnroll == InitEnroll /\ [][NextEnroll]_vars

\* Every student holds an evaluation without expiry in every genre.
InitEnrollRace ==
    /\ NoAttendance /\ NoUsers /\ NoRate
    /\ today = 0
    /\ resp = NoResp
    /\ NoFin /\ NoPlans /\ EnrollAccounts
    /\ evaluations = {[student |-> s, genre |-> g, has_expiry |-> FALSE, expires_on |-> 0] :
                         s \in EnrollAccountIds, g \in Genres}
    /\ maxStudents \in [Classes -> 1..MaxCapacity]
    /\ enrollments = <<>>
    /\ req = [w \in Workers |-> NoReq]

NextEnrollRace ==
    \/ \E w \in Workers, a \in EnrollAccountIds, c \in Classes, st \in EnrollmentStatuses :
          BeginCreateEnrollment(w, a, c, st)
    \/ \E w \in Workers : FinishCreateEnrollment(w)
    \/ \E k \in EnrollmentIds, a \in EnrollAccountIds, c \in Classes,
          st \in EnrollmentStatuses :
          UpdateEnrollment(k, a, c, st)
    \/ \E k \in EnrollmentIds : DeleteEnrollment(k)

\* Enrollments, the requests that create them running concurrently.
SpecEnrollRace == InitEnrollRace /\ [][NextEnrollRace]_vars

NextEnrollStatus ==
    \/ \E a \in EnrollAccountIds, c \in Classes, st \in EnrollmentStatuses :
          CreateEnrollment(a, c, st)
    \/ \E k \in EnrollmentIds, st \in EnrollmentStatuses :
          UpdateEnrollment(k, enrollments[k].account, enrollments[k].class_instance, st)

\* Enrollments created and their status changed, one request at a time, every
\* student holding a valid evaluation and max_students staying as it is.
SpecEnrollStatus == InitEnrollRace /\ [][NextEnrollStatus]_vars

InitFinRace ==
    /\ NoAttendance /\ NoUsers /\ NoRate
    /\ today = 0
    /\ resp = NoResp
    /\ NoFin /\ NoPlans /\ NoAccounts
    /\ evaluations = {} /\ maxStudents = <<>> /\ enrollments = <<>>
    /\ req = [w \in Workers |-> NoReq]

NextFinRace ==
    \/ \E st \in {"draft", "sent"}, total \in Moneys, due \in Days :
          CreateInvoice(st, total, due)
    \/ \E w \in Workers, i \in InvoiceIds, amt \in Moneys, st \in PaymentStatuses :
          ValidatePayment(w, i, amt, st)
    \/ \E w \in Workers : InsertPayment(w)
    \/ \E w \in Workers : RecomputeInvoice(w)

\* Invoices and payments, the requests that create payments running
\* concurrently.
SpecFinRace == InitFinRace /\ [][NextFinRace]_vars

NextEnrollCreateRace ==
    \/ \E w \in Workers, a \in EnrollAccountIds, c \in Classes, st \in EnrollmentStatuses :
          BeginCreateEnrollment(w, a, c, st)
    \/ \E w \in Workers : FinishCreateEnrollment(w)

\* Nothing but enrollment creations, running concurrently.
SpecEnrollCreateRace == InitEnrollRace /\ [][NextEnrollCreateRace]_vars

InitAcct ==
    /\ NoAttendance /\ NoUsers /\ NoRate
    /\ today = 0
    /\ resp = NoResp
    /\ NoFin /\ NoPlans /\ NoEnrollments
    /\ persons = {} /\ students = {} /\ guardians = {} /\ billingContacts = {}
    /\ accounts = [a \in AccountIds |-> NoAccount]
    /\ billed = {}

NextAcct ==
    \/ \E p \in PersonIds : CreatePerson(p)
    \/ \E kind \in RoleKinds, p \in PersonIds : CreateRole(kind, p)
    \/ \E kind \in RoleKinds, p \in PersonIds : DeleteRole(kind, p)
    \/ \E p \in PersonIds : DeletePerson(p)
    \/ \E a \in AccountIds, s \in PersonIds, g \in PersonIds, b \in PersonIds :
          CreateAccount(a, s, g, b)
    \/ \E a \in AccountIds, s \in PersonIds, g \in PersonIds, b \in PersonIds :
          UpdateAccount(a, s, g, b)
    \/ \E a \in AccountIds : BillAccount(a)
    \/ \E a \in AccountIds : DeleteAccount(a)

\* Persons, roles and accounts, requests handled one at a time.
SpecAcct == InitAcct /\ [][NextAcct]_vars

AttGuardian == NumAttStudents + 1

\* Account 1 is that of student 1, account 2 that of any student; each account
\* holds one enrollment.
InitAttend ==
    /\ NoUsers /\ NoRate
    /\ today = 0
    /\ resp = NoResp
    /\ NoFin /\ NoPlans
    /\ persons = 1..AttGuardian
    /\ students = AttStudents
    /\ guardians = {AttGuardian}
    /\ billingContacts = {AttGuardian}
    /\ \E s2 \in AttStudents :
          accounts = [a \in EnrollAccountIds |->
                         [student |-> IF a = 1 THEN 1 ELSE s2, guardian |-> AttGuardian,
                          billing_contact |-> AttGuardian]]
    /\ billed = {}
    /\ evaluations = {}
    /\ maxStudents = [c \in AttClasses |-> MaxCapacity]
    /\ \E c2 \in AttClasses, st1 \in {"trial", "active", "withdrawn"},
          st2 \in {"trial", "active", "withdrawn"} :
          enrollments = << [account |-> 1, class_instance |-> 1, status |-> st1],
                           [account |-> NumEnrollAccounts, class_instance |-> c2,
                            status |-> st2] >>
    /\ req = <<>>
    /\ attendance = <<>>
    /\ cancelledClasses \in {{}, {NumAttClasses}}

NextAttend ==
    \/ \E s \in AttStudents, c \in AttClasses, d \in Days, e \in 0..Len(enrollments) :
          CreateAttendance(s, c, d, e)
    \/ \E k \in AttendanceIds, s \in AttStudents, c \in AttClasses, d \in Days,
          e \in 0..Len(enrollments) :
          UpdateAttendance(k, s, c, d, e)
    \/ \E k \in AttendanceIds, s \in AttStudents \cup {0}, c \in AttClasses \cup {0},
          d \in Days \cup {NoDate}, e \in 0..Len(enrollments) :
          PatchAttendance(k, s, c, d, e)
    \/ \E k \in AttendanceIds : DeleteAttendance(k)
    \/ \E s \in AttStudents, c \in AttClasses, d \in Days, e \in EnrollmentIds :
          AdminCreateAttendance(s, c, d, e)

\* Attendance records over a fixed set of enrollments, requests one at a time.
SpecAttend == InitAttend /\ [][NextAttend]_vars

InitUsers ==
    /\ NoAttendance /\ NoUsers /\ NoRate
    /\ today = 0
    /\ NoFin /\ NoPlans /\ NoAccounts
    /\ evaluations = {} /\ maxStudents = <<>> /\ enrollments = <<>>
    /\ req = NoReq
    /\ resp = NoResp

NextUsers ==
    \/ \E role \in Roles : Register(role)
    \/ CreateSuperuser
    \/ \E caller \in 0..MaxUsers : ListUsers(caller)
    \/ \E caller \in 0..MaxUsers, k \in UserIds : RetrieveUser(caller, k)
    \/ \E caller \in 0..MaxUsers, k \in UserIds, role \in Roles, is_active \in BOOLEAN :
          UpdateUser(caller, k, role, is_active)
    \/ \E caller \in 0..MaxUsers, role \in Roles, is_active \in BOOLEAN :
          UpdateProfile(caller, role, is_active)
    \/ \E caller \in 0..MaxUsers, k \in UserIds : DeleteUser(caller, k)
    \/ \E username \in 0..MaxUsers, password_ok \in BOOLEAN : Login(username, password_ok)

\* The user endpoints, one request at a time.
SpecUsers == InitUsers /\ [][NextUsers]_vars

InitRate ==
    /\ NoAttendance /\ NoUsers
    /\ today = 0
    /\ NoFin /\ NoPlans /\ NoAccounts /\ NoEnrollments
    /\ clock = 0 /\ cache = <<>> /\ recent = <<>>
    /\ resp = NoResp

NextRate ==
    \/ \E client_ip \in ClientIps, api \in BOOLEAN : ProcessRequest(client_ip, api)
    \/ AdvanceClock

\* Requests passing the rate limiter one at a time while time goes by.
SpecRate == InitRate /\ [][NextRate]_vars

InitBalance ==
    /\ NoAttendance /\ NoUsers /\ NoRate
    /\ today = 0
    /\ resp = NoResp
    /\ NoFin /\ NoPlans /\ NoEnrollments
    /\ persons = {1}
    /\ students = {1}
    /\ guardians = {1}
    /\ billingContacts = {1}
    /\ accounts = [a \in BalanceAccountIds |->
                      [student |-> 1, guardian |-> 1, billing_contact |-> 1]]
    /\ billed = {}

NextBalance ==
    \/ \E a \in BalanceAccountIds, st \in {"draft", "sent"}, total \in Moneys, due \in Days :
          CreateAccountInvoice(a, st, total, due)
    \/ \E i \in InvoiceIds, amt \in Moneys, st \in PaymentStatuses :
          CreatePayment(i, amt, st)
    \/ \E a \in 1..(NumBalanceAccounts + 1) : Balance(a)

\* Invoices and payments of several accounts, and the balance asked for.
SpecBalance == InitBalance /\ [][NextBalance]_vars

InitSecurity ==
    /\ NoAttendance /\ NoUsers
    /\ today = 0
    /\ NoFin /\ NoPlans /\ NoAccounts
    /\ evaluations = {} /\ maxStudents = <<>> /\ enrollments = <<>>
    /\ clock = 0 /\ cache = <<>> /\ recent = NoneAdmitted
    /\ req \in {[authenticated |-> b] : b \in BOOLEAN}
    /\ resp = NoResp

NextSecurity ==
    \/ \E path \in PathClasses : SecurityProcessRequest(path)
    \/ \E t \in SecurityTimes : SecurityAdvance(t)

\* The requests of one client passing the per-endpoint-class rate limiter.
SpecSecurity == InitSecurity /\ [][NextSecurity]_vars

InitMonitor ==
    /\ today = 0 /\ NoFin /\ NoPlans /\ NoAccounts /\ NoEnrollments
    /\ NoAttendance /\ NoUsers
    /\ clock = 0 /\ cache = <<>>
    /\ recent = [score |-> [c \in MonitorClients |-> 0],
                 blocked_at |-> [c \in MonitorClients |-> {}]]
    /\ resp = NoResp

NextMonitor ==
    \/ \E c \in MonitorClients, anomalies \in AnomalyLists : HandleAnomalies(c, anomalies)
    \/ \E c \in MonitorClients : IsClientBlocked(c)
    \/ \E t \in MonitorTimes : MonitorAdvance(t)

SpecMonitor == InitMonitor /\ [][NextMonitor]_vars

\* The request paths tried against the permission class.
Paths ==
    {ApiPrefix(n) : n \in {"users", "guardians", "students", "accounts", "people",
                           "financial", "scheduling", "enrollments", "invoices"}}
    \cup {ApiPrefix("financial") \o <<"invoices", "/">>,
          ApiPrefix("users") \o <<"delete">>,
          ApiPrefix("users") \o <<"delete", "d", "/">>,
          ApiPrefix("users") \o <<"7", "/">>,
          ApiPrefix("financial") \o <<"delete", "/", "7", "/">>,
          ApiPrefix("auth") \o <<"me", "/">>,
          <<"/", "api", "/", "users">>,
          <<"/", "api", "/", "financial">>,
          <<"/", "admin", "/">>}

InitRequest ==
    /\ NoAttendance /\ NoUsers /\ NoRate
    /\ today = 0
    /\ NoFin /\ NoPlans /\ NoAccounts
    /\ evaluations = {} /\ maxStudents = <<>> /\ enrollments = <<>>
    /\ req = NoReq
    /\ resp = NoResp

NextRequest ==
    \/ \E method \in Methods, access \in AccessCookies, header \in Carried,
          cookie \in Carried :
          Authenticate(method, access, header, cookie)
    \/ \E authenticated \in BOOLEAN, role \in Roles, method \in Methods, path \in Paths :
          CheckPermission(authenticated, role, method, path)

\* Requests passing the authentication class and the permission class.
SpecRequest == InitRequest /\ [][NextRequest]_vars

\* ------------------------------------------------------------------ claims

\* The status the recompute rule of the specification gives an invoice object
\* whose fields on entry to save are st, paid, total and due, on the day now.
RuleStatus(st, paid, total, due, now) ==
    IF st = "cancelled" THEN "cancelled"
    ELSE IF paid >= total THEN "paid"
    ELSE IF paid > 0 THEN "partially_paid"
    ELSE IF due < now THEN "overdue"
    ELSE IF st = "draft" THEN "draft"
    ELSE "sent"

\* C1: every save of an invoice persists the status the recompute rule gives for
\* the object's prior status, amount_paid, total and due_date: cancelled stays,
\* else paid, else partially_paid, else overdue when due_date is before today,
\* else draft stays draft, else sent.
C1_SaveRecomputesStatus ==
    [][/\ \A st \in InvoiceStatuses, total \in Moneys, due \in Days :
             CreateInvoice(st, total, due) =>
                 invoices'[Len(invoices')].status = RuleStatus(st, 0, total, due, today)
       /\ \A i \in InvoiceIds, st \in InvoiceStatuses, total \in Moneys, due \in Days :
             UpdateInvoice(i, st, total, due) =>
                 invoices'[i].status =
                     RuleStatus(st, invoices[i].amount_paid, total, due, today)
       /\ \A i \in InvoiceIds :
             SendInvoice(i) /\ invoices[i].status = "draft" =>
                 invoices'[i].status =
                     RuleStatus("sent", invoices[i].amount_paid, invoices[i].total,
                                invoices[i].due_date, today)
       /\ \A k \in PaymentIds \cup {0}, i \in InvoiceIds, amt \in Moneys :
             \/ CreatePayment(i, amt, "completed") /\ resp'.code = 201
             \/ k > 0 /\ UpdatePayment(k, i, amt, "completed")
             => invoices'[i].status =
                    RuleStatus(invoices[i].status, SumCompleted(payments', i),
                               invoices[i].total, invoices[i].due_date, today)
      ]_vars

\* C2: right after a completed payment is saved against an invoice that is not
\* cancelled, the invoice's amount_paid is the sum of its completed payments, its
\* status is partially_paid while 0 < amount_paid < total and paid once
\* amount_paid >= total, and then is_paid holds and amount_outstanding is 0.
C2_CompletedPaymentUpdatesInvoice ==
    [][\A k \in PaymentIds \cup {0}, i \in InvoiceIds, amt \in Moneys :
          /\ \/ CreatePayment(i, amt, "completed") /\ resp'.code = 201
             \/ k > 0 /\ UpdatePayment(k, i, amt, "completed")
          /\ invoices[i].status # "cancelled"
          => LET inv == invoices'[i]
             IN /\ inv.amount_paid = SumCompleted(payments', i)
                /\ inv.amount_paid > 0
                /\ inv.amount_paid < inv.total => inv.status = "partially_paid"
                /\ inv.amount_paid >= inv.total =>
                       inv.status = "paid" /\ IsPaid(inv) /\ AmountOutstanding(inv) = 0
      ]_vars

\* A second completed payment has brought a partially paid invoice to paid.
C2_Witness ==
    /\ resp = [op |-> "create_payment", code |-> 201]
    /\ Len(payments) = 2
    /\ \A k \in PaymentIds : payments[k].status = "completed" /\ payments[k].invoice = 1
    /\ invoices[1].status = "paid"
    /\ invoices[1].amount_paid = invoices[1].total

C9_SendDraftBecomesSent ==
    [][\A i \in InvoiceIds :
          SendInvoice(i) =>
              IF invoices[i].status = "draft"
              THEN resp'.code = 200 /\ invoices'[i].status = "sent"
              ELSE resp'.code = 400 /\ invoices' = invoices
      ]_vars

\* The status the recompute rule of the specification gives a plan object whose
\* fields on entry to save are those of pl, on the day now: the expected date is
\* first_payment_date + installments_paid x period.
RulePlanStatus(pl, now) ==
    LET k == pl.installments_paid
        due == IF pl.frequency = "weekly" THEN pl.first_payment_date + 7 * k
               ELSE IF pl.frequency = "biweekly" THEN pl.first_payment_date + 14 * k
               ELSE AddMonths(pl.first_payment_date, k)
    IN IF pl.amount_paid >= pl.total_amount THEN "completed"
       ELSE IF /\ pl.status = "active"
               /\ k < pl.number_of_installments
               /\ now > due + 7
            THEN "defaulted"
       ELSE pl.status

\* C7: record_payment on an active or defaulted plan adds installment_amount to
\* amount_paid, adds one to installments_paid and recomputes the status; on a
\* completed or cancelled plan it is rejected and changes nothing.  So a plan
\* with total_amount = installment_amount x number_of_installments that has paid
\* installment_amount for each installment so far is completed by the payment
\* that makes installments_paid = number_of_installments and by no earlier one,
\* with amount_paid = total_amount and no installment remaining, after which
\* record_payment is rejected.
C7_RecordPayment ==
    [][RecordPayment =>
          IF plan.status \in {"active", "defaulted"}
          THEN LET after == [plan EXCEPT
                                !.amount_paid = plan.amount_paid + plan.installment_amount,
                                !.installments_paid = plan.installments_paid + 1]
               IN /\ resp'.code = 200
                  /\ plan' = [after EXCEPT !.status = RulePlanStatus(after, today)]
                  /\ /\ plan.total_amount =
                           plan.installment_amount * plan.number_of_installments
                     /\ plan.amount_paid = plan.installment_amount * plan.installments_paid
                     => /\ plan'.installments_paid <= plan.number_of_installments
                        /\ plan'.status = "completed"
                              <=> plan'.installments_paid = plan.number_of_installments
                        /\ plan'.status = "completed" =>
                              /\ plan'.amount_paid = plan.total_amount
                              /\ Max(0, plan'.number_of_installments
                                           - plan'.installments_paid) = 0
          ELSE resp'.code = 400 /\ plan' = plan
      ]_vars

\* A plan of three installments covering its total exactly has been paid in
\* three operations and a fourth was turned down.
C7_Witness ==
    /\ resp = [op |-> "record_payment", code |-> 400]
    /\ plan.status = "completed"
    /\ plan.number_of_installments = 3
    /\ plan.installments_paid = 3
    /\ plan.amount_paid = plan.total_amount
    /\ plan.total_amount = plan.installment_amount * 3

\* C8: every save of a payment plan sets the status to completed when
\* amount_paid >= total_amount; otherwise to defaulted when the status is
\* active, fewer than number_of_installments are paid and today is later than
\* first_payment_date + installments_paid x period + 7 days; otherwise it keeps
\* the status.
C8_PlanStatusRecompute ==
    [][/\ plan = NoPlan /\ plan' # NoPlan =>
          \A st \in PlanStatuses, total \in PlanTotals, inst \in InstallmentAmounts,
             n \in InstallmentCounts, freq \in Frequencies, first \in FirstPaymentDates :
             CreatePlan(st, total, inst, n, freq, first) /\ resp'.code = 201 =>
                 plan'.status =
                     RulePlanStatus([status |-> st, total_amount |-> total,
                                     number_of_installments |-> n, frequency |-> freq,
                                     first_payment_date |-> first,
                                     amount_paid |-> 0, installments_paid |-> 0], today)
       /\ \A st \in PlanStatuses :
             UpdatePlan(st) =>
                 plan'.status = RulePlanStatus([plan EXCEPT !.status = st], today)
       /\ RecordPayment /\ resp'.code = 200 =>
             plan'.status =
                 RulePlanStatus([plan EXCEPT
                                    !.amount_paid = plan.amount_paid + plan.installment_amount,
                                    !.installments_paid = plan.installments_paid + 1], today)
      ]_vars

\* A monthly plan of three installments with none paid, saved 40 days after its
\* first payment date, is defaulted.
C8_Witness ==
    /\ resp = [op |-> "update_plan", code |-> 200]
    /\ plan.status = "defaulted"
    /\ plan.frequency = "monthly"
    /\ plan.number_of_installments = 3
    /\ plan.installments_paid = 0
    /\ today = plan.first_payment_date + 40

\* The number of enrollments of class c with status 'active'.
RuleActiveCount(c) ==
    Cardinality({k \in EnrollmentIds :
                    enrollments[k].class_instance = c /\ enrollments[k].status = "active"})

\* The student of account a holds an evaluation of genre g that has no expiry or
\* expires on or after today.
RuleEvaluated(a, g) ==
    \E e \in evaluations :
        /\ e.student = accounts[a].student /\ e.genre = g
        /\ (e.has_expiry => e.expires_on >= today)

\* Some stored enrollment has the pair (a, c).
RuleEnrolled(a, c) ==
    \E k \in EnrollmentIds :
        enrollments[k].account = a /\ enrollments[k].class_instance = c

\* C4: creating an enrollment is rejected, and nothing is stored, when the number
\* of 'active' enrollments of the class instance (no other status counts) is at
\* least max_students; when that number is below max_students, as after an active
\* enrollment was set to 'withdrawn', a new enrollment of another account whose
\* student holds a valid evaluation is accepted and stored.
C4_FullClassRejectsEnrollment ==
    [][enrVars' # enrVars \/ resp' # resp =>
       \A a \in EnrollAccountIds, c \in Classes, st \in EnrollmentStatuses :
          /\ (resp'.op = "create_enrollment" /\ CreateEnrollment(a, c, st)) =>
               /\ RuleActiveCount(c) >= maxStudents[c] =>
                     /\ resp'.code = 400
                     /\ enrollments' = enrollments
               /\ (/\ RuleActiveCount(c) < maxStudents[c]
                   /\ ~RuleEnrolled(a, c)
                   /\ RuleEvaluated(a, GenreOf(c))) =>
                     /\ resp'.code = 201
                     /\ enrollments' = Append(enrollments,
                            [account |-> a, class_instance |-> c, status |-> st])
          /\ \A midnight \in BOOLEAN :
               (/\ resp'.op = "admin_add_enrollment"
                /\ RuleActiveCount(c) >= maxStudents[c]
                /\ AdminCreateEnrollment(a, c, st, midnight)) =>
                     /\ resp'.code = 200
                     /\ enrollments' = enrollments
      ]_vars

\* A class of one place holds a withdrawn enrollment and an active one of another
\* account, the latter just accepted.
C4_Witness ==
    /\ resp = EnrollResp("create_enrollment", 201, "")
    /\ Len(enrollments) = 2
    /\ maxStudents[enrollments[2].class_instance] = 1
    /\ enrollments[1].class_instance = enrollments[2].class_instance
    /\ enrollments[1].account # enrollments[2].account
    /\ enrollments[1].status = "withdrawn"
    /\ enrollments[2].status = "active"

\* C5: a new enrollment is stored only if the account's student holds an
\* evaluation of the class's genre whose expires_on is unset or on/after today;
\* with no such evaluation the creation is rejected and nothing is stored.
C5_EnrollmentNeedsValidEvaluation ==
    [][enrVars' # enrVars \/ resp' # resp =>
       \A a \in EnrollAccountIds, c \in Classes, st \in EnrollmentStatuses :
          /\ (resp'.op = "create_enrollment" /\ CreateEnrollment(a, c, st)) =>
               /\ enrollments' # enrollments => RuleEvaluated(a, GenreOf(c))
               /\ ~RuleEvaluated(a, GenreOf(c)) =>
                     /\ resp'.code = 400
                     /\ enrollments' = enrollments
          /\ \A midnight \in BOOLEAN :
               (/\ resp'.op = "admin_add_enrollment"
                /\ AdminCreateEnrollment(a, c, st, midnight)) =>
                  /\ enrollments' # enrollments => RuleEvaluated(a, GenreOf(c))
                  /\ ~RuleEvaluated(a, GenreOf(c)) =>
                        /\ resp'.code = 200
                        /\ enrollments' = enrollments
      ]_vars

\* A creation was turned down for the evaluation while the student holds
\* evaluations, every one of them expired.
C5_Witness ==
    /\ resp = EnrollResp("create_enrollment", 400, "account")
    /\ evaluations # {}
    /\ \A e \in evaluations : e.has_expiry /\ e.expires_on < today

\* C6: at every moment, concurrent create requests included, no two stored
\* enrollments have the same (account, class_instance) pair; a create request
\* for a pair that is already stored fails and leaves the enrollments unchanged.
C6_OneEnrollmentPerPair ==
    /\ [](\A k1 \in EnrollmentIds, k2 \in EnrollmentIds :
             (enrollments[k1].account = enrollments[k2].account
                /\ enrollments[k1].class_instance = enrollments[k2].class_instance)
             => k1 = k2)
    /\ [][/\ \A w \in Workers, a \in EnrollAccountIds, c \in Classes,
                st \in EnrollmentStatuses :
                (BeginCreateEnrollment(w, a, c, st) /\ RuleEnrolled(a, c)) =>
                    /\ resp'.code = 400
                    /\ req'[w] = NoReq
                    /\ enrollments' = enrollments
          /\ \A w \in Workers :
                (FinishCreateEnrollment(w)
                   /\ RuleEnrolled(req[w].account, req[w].class_instance)) =>
                    /\ resp'.code = 500
                    /\ enrollments' = enrollments
        ]_vars

\* Two requests for one pair both passed validation; the second INSERT failed.
C6_Witness ==
    /\ resp = EnrollResp("create_enrollment", 500, "integrity")
    /\ Len(enrollments) >= 1

\* C10: at every moment each account references an existing student, guardian
\* and billing contact (and their persons); deleting a referenced role record,
\* directly or through its person, is rejected and changes nothing; deleting a
\* student that no account references succeeds.
C10_AccountRolesProtected ==
    /\ [](\A a \in DOMAIN accounts :
             accounts[a] # NoAccount =>
                /\ accounts[a].student \in students \cap persons
                /\ accounts[a].guardian \in guardians \cap persons
                /\ accounts[a].billing_contact \in billingContacts \cap persons)
    /\ [][\A p \in PersonIds :
             LET used(kind) == \E a \in DOMAIN accounts :
                                   accounts[a] # NoAccount /\ accounts[a][kind] = p
             IN /\ \A kind \in RoleKinds :
                      (DeleteRole(kind, p) /\ used(kind)) =>
                          /\ resp'.code = 500
                          /\ UNCHANGED acctVars
                /\ (DeletePerson(p) /\ \E kind \in RoleKinds : used(kind)) =>
                          /\ resp'.code = 500
                          /\ UNCHANGED acctVars
                /\ (DeleteRole("student", p) /\ ~used("student")) =>
                          /\ resp'.code = 204
                          /\ students' = students \ {p}
        ]_vars

\* The deletion of a student that an account references was just rejected.
C10_Witness ==
    /\ resp = AcctResp("delete_role", 500, "student")
    /\ \E a \in DOMAIN accounts :
          accounts[a] # NoAccount /\ accounts[a].student \in students

\* C11: creating an attendance record for (student, class_instance, date) with
\* no enrollment named, the request being otherwise valid, stores a record
\* linked to the one trial or active enrollment of the student in the class when
\* there is exactly one, and is rejected with nothing stored when there is none
\* or more than one.
C11_AttendanceAutoLink ==
    [][\A s \in AttStudents, c \in AttClasses, d \in Days :
          (/\ CreateAttendance(s, c, d, 0)
           /\ d <= today /\ c \notin cancelledClasses
           /\ \A k \in AttendanceIds :
                 ~(/\ attendance[k].student = s /\ attendance[k].class_instance = c
                   /\ attendance[k].date = d)) =>
             LET m == {e \in EnrollmentIds :
                          /\ accounts[enrollments[e].account].student = s
                          /\ enrollments[e].class_instance = c
                          /\ enrollments[e].status \in {"trial", "active"}}
             IN IF Cardinality(m) = 1
                THEN /\ resp'.code = 201
                     /\ Len(attendance') = Len(attendance) + 1
                     /\ attendance'[Len(attendance')].enrollment \in m
                ELSE /\ resp'.code = 400
                     /\ attendance' = attendance
      ]_vars

\* C12: at every moment each attendance record's enrollment belongs to an
\* account whose student is the record's student, and is an enrollment in the
\* record's class instance.
C12_AttendanceEnrollmentMatches ==
    \A k \in AttendanceIds :
        /\ attendance[k].enrollment \in EnrollmentIds
        /\ accounts[enrollments[attendance[k].enrollment].account].student
              = attendance[k].student
        /\ enrollments[attendance[k].enrollment].class_instance
              = attendance[k].class_instance

\* C13: an update of an enrollment whose status is 'withdrawn' or 'completed'
\* leaves its status as it is.
C13_TerminalStatusStays ==
    [][resp'.op = "update_enrollment" =>
       \A k \in EnrollmentIds, a \in EnrollAccountIds, c \in Classes,
          st \in EnrollmentStatuses :
          (/\ enrollments[k].status \in {"withdrawn", "completed"}
           /\ UpdateEnrollment(k, a, c, st)) =>
              enrollments'[k].status = enrollments[k].status
      ]_vars

\* C14: a request with a valid access_token cookie and an unsafe method is
\* authenticated exactly when its X-CSRFToken header is present, not empty and
\* equal to the value of the csrftoken cookie; otherwise PermissionDenied is
\* raised.
C14_CsrfEnforced ==
    (/\ req # NoReq /\ req.kind = "authenticate"
     /\ req.access = "valid"
     /\ req.method \notin {"GET", "HEAD", "OPTIONS", "TRACE"}) =>
        IF /\ req.header.present /\ req.header.value # ""
           /\ req.cookie.present /\ req.header.value = req.cookie.value
        THEN resp.result = "authenticated"
        ELSE resp.result = "permission_denied"

\* A POST whose header is not empty but differs from the cookie was denied.
C14_Witness ==
    /\ req # NoReq /\ req.kind = "authenticate"
    /\ req.access = "valid" /\ req.method = "POST"
    /\ req.header = [present |-> TRUE, value |-> "a"]
    /\ req.cookie = [present |-> TRUE, value |-> "b"]
    /\ resp.result = "permission_denied"

\* The policy a role falls under: its own when the matrix has it, else the
\* student's.
RulePolicyRole(role) ==
    IF role \in {"admin", "staff", "teacher", "parent", "student"} THEN role ELSE "student"

\* C16: the request is granted exactly when the caller is authenticated, the
\* method is among the allowed methods of the caller's policy and the path
\* starts with none of its blocked prefixes, a role outside the matrix having
\* the student policy; a student's GET under /api/financial/ is denied and a
\* student's GET to /api/auth/me/ is granted.
C16_StrictApiAccess ==
    (req # NoReq /\ req.kind = "permission") =>
        LET policy == RolePermissions(RulePolicyRole(req.role))
        IN /\ resp.granted <=>
                 /\ req.authenticated
                 /\ req.method \in policy.allowed_methods
                 /\ \A b \in policy.blocked_endpoints : ~StartsWith(req.path, b)
           /\ (/\ req.authenticated /\ req.role = "student" /\ req.method = "GET"
               /\ StartsWith(req.path, <<"/", "api", "/", "financial", "/">>))
                 => ~resp.granted
           /\ (/\ req.authenticated /\ req.role = "student" /\ req.method = "GET"
               /\ req.path = <<"/", "api", "/", "auth", "/", "me", "/">>)
                 => resp.granted

\* A caller whose role the matrix does not list was denied a GET under
\* /api/financial/.
C16_Witness ==
    /\ req # NoReq /\ req.kind = "permission"
    /\ req.authenticated /\ req.role = "guardian" /\ req.method = "GET"
    /\ req.path = <<"/", "api", "/", "financial", "/", "invoices", "/">>
    /\ ~resp.granted

\* What a caller of the user endpoints got: the list holds exactly the rows of
\* scope, and a retrieve, update or delete finds its row exactly when the row
\* is in scope.
RuleSees(scope) ==
    IF req'.kind = "list" THEN resp'.ids = scope
    ELSE (resp'.code # 404) <=> (req'.id \in scope)

RuleUserRequest ==
    /\ req'.kind \in {"list", "retrieve", "update", "delete"}
    /\ req'.caller \in Existing /\ users[req'.caller].is_active

\* C15 as stated: through list, retrieve, update and delete a caller with role
\* 'parent' sees only their own row, a caller with role staff or teacher who is
\* not an admin sees every row whose role is not 'admin', and an admin sees
\* every row.
C15_UsersScopedByRole ==
    [][RuleUserRequest =>
         LET user == users[req'.caller]
         IN /\ user.role = "parent" => RuleSees({req'.caller})
            /\ (user.role \in {"staff", "teacher"} /\ ~user.is_superuser)
                  => RuleSees({k \in Existing : users[k].role # "admin"})
            /\ user.role = "admin" => RuleSees(Existing)]_vars

\* C15 amended: a caller with role 'parent' who is not a superuser sees only
\* their own row; a caller with role staff or teacher who is not a superuser
\* sees every row whose role is not 'admin'; a caller with role 'admin', and a
\* superuser of any role, sees every row.
C15_UsersScopedByRoleAndSuperuser ==
    [][RuleUserRequest =>
         LET user == users[req'.caller]
         IN /\ (user.role = "parent" /\ ~user.is_superuser) => RuleSees({req'.caller})
            /\ (user.role \in {"staff", "teacher"} /\ ~user.is_superuser)
                  => RuleSees({k \in Existing : users[k].role # "admin"})
            /\ (user.role = "admin" \/ user.is_superuser) => RuleSees(Existing)]_vars

\* A parent who is not a superuser listed the users while another user
\* existed and got their own row alone.
C15_Witness ==
    /\ resp.op = "list_users" /\ resp.code = 200
    /\ req.caller \in Existing
    /\ users[req.caller].role = "parent" /\ ~users[req.caller].is_superuser
    /\ Cardinality(Existing) = 2
    /\ resp.ids = {req.caller}

\* C19: a login with the right username and password of an active user is
\* answered 200 with an 'access' and a 'refresh' token in the body.
C19_LoginReturnsTokensInBody ==
    (/\ resp.op = "login"
     /\ req.id \in Existing /\ req.password_ok /\ users[req.id].is_active)
        => /\ resp.code = 200
           /\ {"access", "refresh"} \subseteq resp.body

\* The requests under /api/ of one client, as positions in the log.
RuleApiRequests(ip) == {i \in DOMAIN recent : recent[i].api /\ recent[i].client_ip = ip}

\* C17 as stated: when a client's request under /api/ comes after a silence of
\* 60 seconds or at the start, and it and the requests after it up to the one
\* past the limit all fall within 60 seconds, then the ones up to the limit are
\* passed on and the one past the limit is answered 429.
C17_LimitPerSixtySeconds ==
    \A ip \in ClientIps : \A i, j \in RuleApiRequests(ip) :
        (/\ i < j
         /\ Cardinality({k \in RuleApiRequests(ip) : i <= k /\ k <= j}) = RateLimitApiCalls + 1
         /\ recent[j].time - recent[i].time < 60
         /\ \A h \in RuleApiRequests(ip) : h < i => recent[i].time - recent[h].time >= 60)
        => /\ \A k \in RuleApiRequests(ip) : (i <= k /\ k < j) => ~recent[k].limited
           /\ recent[j].limited

\* C17 amended: of a client's requests under /api/ that fall within one minute
\* of the clock (the same value of the time in seconds divided by 60, rounded
\* down), those up to the limit are passed on and every later one is answered
\* 429; a request outside /api/ is always passed on.
C17_LimitPerClockMinute ==
    /\ \A ip \in ClientIps : \A j \in RuleApiRequests(ip) :
          recent[j].limited <=>
             Cardinality({k \in RuleApiRequests(ip) :
                             /\ k < j
                             /\ recent[k].time \div 60 = recent[j].time \div 60})
                >= RateLimitApiCalls
    /\ \A j \in DOMAIN recent : ~recent[j].api => ~recent[j].limited
    /\ resp.op = "process_request" =>
          (resp.code = 429 <=> recent[Len(recent)].limited)

\* One request more than the limit came from one client within one minute of
\* the clock and the last of them was answered 429.
C17_Witness ==
    /\ resp.op = "process_request" /\ resp.code = 429
    /\ \E ip \in ClientIps :
          Cardinality({k \in RuleApiRequests(ip) :
                          recent[k].time \div 60 = clock \div 60}) = RateLimitApiCalls + 1

RECURSIVE RuleSum(_, _)
\* The sum of f over the finite set S.
RuleSum(f, S) ==
    IF S = {} THEN 0
    ELSE LET x == CHOOSE y \in S : TRUE IN f[x] + RuleSum(f, S \ {x})

\* C18: the balance of an account is answered with total_invoiced = the sum of
\* the totals of the account's invoices, total_paid = the sum of the amounts of
\* the completed payments on those invoices, balance = total_invoiced -
\* total_paid and has_outstanding = (balance > 0).
C18_BalanceCountsCompletedPayments ==
    (resp.op = "balance" /\ resp.account \in DOMAIN accounts) =>
        LET mine == {i \in InvoiceIds : invoices[i].account = resp.account}
            total_invoiced == RuleSum([i \in mine |-> invoices[i].total], mine)
            completed == {k \in PaymentIds : /\ payments[k].invoice \in mine
                                             /\ payments[k].status = "completed"}
            total_paid == RuleSum([k \in completed |-> payments[k].amount], completed)
        IN /\ resp.code = 200
           /\ resp.body.total_invoiced = total_invoiced
           /\ resp.body.total_paid = total_paid
           /\ resp.body.balance = total_invoiced - total_paid
           /\ resp.body.has_outstanding = (total_invoiced - total_paid > 0)

\* C20: a request that passed validation is saved as validated whatever the
\* invoice has outstanding by then, and the saving of a completed payment sets
\* amount_paid to the sum of the completed payments; so two requests validated
\* against the same invoice state can together overpay the invoice (the state
\* of C20_Witness).
C20_ValidatedPaymentsAreSaved ==
    [][\A w \in Workers :
         (req[w] # NoReq /\ req'[w] # req[w]) =>
            IF req[w].phase = "validated"
            THEN payments' = Append(payments, [invoice |-> req[w].invoice,
                                               amount |-> req[w].amount,
                                               status |-> req[w].status])
            ELSE req[w].status = "completed" =>
                    invoices'[req[w].invoice].amount_paid
                       = SumCompleted(payments, req[w].invoice)]_vars

\* Both requests are done, both payments are completed, each was no more than
\* the total, and their sum and amount_paid exceed the total.
C20_Witness ==
    /\ \A w \in Workers : req[w] = NoReq
    /\ Len(invoices) = 1 /\ Len(payments) = 2
    /\ \A k \in 1..2 : /\ payments[k].status = "completed"
                       /\ payments[k].amount <= invoices[1].total
    /\ SumCompleted(payments, 1) > invoices[1].total
    /\ invoices[1].amount_paid > invoices[1].total

\* C21: a creation request that passed validation is stored when its turn
\* comes, however many 'active' enrollments the class instance has by then
\* (only a stored row of the same pair stops it); so requests validated before
\* each other's row was stored can together exceed max_students (the state of
\* C21_Witness).
C21_ValidatedEnrollmentsAreStored ==
    [][\A w \in Workers :
         (/\ req[w] # NoReq /\ req'[w] = NoReq
          /\ ~RuleEnrolled(req[w].account, req[w].class_instance))
         => /\ enrollments' = Append(enrollments,
                                     [account |-> req[w].account,
                                      class_instance |-> req[w].class_instance,
                                      status |-> req[w].status])
            /\ resp'.code = 201]_vars

\* No request is pending and a class instance has more 'active' enrollments
\* than max_students, nothing but creations having taken place.
C21_Witness ==
    /\ \A w \in Workers : req[w] = NoReq
    /\ \E c \in Classes : RuleActiveCount(c) > maxStudents[c]

\* How many login requests were let through at the seconds from s up to, not
\* including, s + length.
RuleLoginsWithin(s, length) ==
    RuleSum([t \in SecurityTimes |-> IF s <= t /\ t < s + length THEN recent.login[t] ELSE 0],
            SecurityTimes)

\* C22: an anonymous client has at most 20 general requests let through
\* between the start of its window and one hour later (every request of the
\* model comes within one hour of the client's first), whatever login or
\* register requests come in between; from the start of any window until one
\* minute later at most 3 login requests are let through; and a request that
\* is turned down is answered 403.
C22_CeilingsPerEndpointClass ==
    /\ ~req.authenticated => recent.general <= 20
    /\ \A s \in recent.starts : RuleLoginsWithin(s, 60) <= 3
    /\ resp.op = "security_rate_limit" => resp.code \in {0, 403}

\* The weight of a severity and the summed weight of a list of anomalies.
RuleWeight(severity) ==
    IF severity = "critical" THEN 10
    ELSE IF severity = "high" THEN 5
    ELSE IF severity = "medium" THEN 3
    ELSE 1

RuleListWeight(anomalies) ==
    RuleSum([i \in DOMAIN anomalies |-> RuleWeight(anomalies[i])], DOMAIN anomalies)

\* C23: handling anomalies for a client raises the client's score by the
\* summed weights of the anomalies (low 1, medium 3, high 5, critical 10); a
\* resulting score of 20 or more blocks the client for 3600 seconds and raises
\* an alert, one of 10 to 19 raises an alert and blocks nobody, one below 10
\* does neither; and is_client_blocked answers blocked exactly from the second
\* of the client's last block until 3600 seconds later.
C23_ScoreBlockAndAlert ==
    [][/\ (resp'.op = "handle_anomalies" /\ recent' # recent)
          => LET c == resp'.client
                 score == recent.score[c] + RuleListWeight(resp'.anomalies)
             IN /\ recent'.score[c] = score
                /\ \A d \in MonitorClients \ {c} : recent'.score[d] = recent.score[d]
                /\ score >= 20 => /\ c \in DOMAIN cache'
                                  /\ cache'[c] = clock + 3600
                                  /\ resp'.alert # "none"
                /\ (score >= 10 /\ score < 20) => /\ c \notin DOMAIN cache'
                                                  /\ resp'.alert # "none"
                /\ score < 10 => /\ c \notin DOMAIN cache'
                                 /\ resp'.alert = "none"
       /\ (resp'.op = "is_client_blocked" /\ recent' = recent /\ clock' = clock)
          => resp'.blocked = (\E b \in recent.blocked_at[resp'.client] :
                                 b <= clock /\ clock < b + 3600)]_vars

\* A client whose score passed 20 was blocked, and is_client_blocked answers
\* that it is blocked no longer, the 3600 seconds being over.
C23_Witness ==
    /\ resp.op = "is_client_blocked"
    /\ ~resp.blocked
    /\ recent.score[resp.client] >= 20
    /\ recent.blocked_at[resp.client] # {}

\* No two enrollments have the same account and class instance.
RuleEnrollmentsUnique ==
    \A j, k \in EnrollmentIds :
        (/\ enrollments[j].account = enrollments[k].account
         /\ enrollments[j].class_instance = enrollments[k].class_instance) => j = k

\* The 'trial' or 'active' enrollments in class instance c of the accounts
\* whose student is s.
RuleLinkable(s, c) ==
    {k \in EnrollmentIds :
        /\ accounts[enrollments[k].account].student = s
        /\ enrollments[k].class_instance = c
        /\ enrollments[k].status \in {"trial", "active"}}

\* C24, as amended: while enrollments are unique by account and class
\* instance, the auto-link lookup matches at most one enrollment of each
\* account; it matches several only for a student who belongs to several
\* accounts, and the multiple-match answer is given only then.
C24_AtMostOneMatchPerAccount ==
    RuleEnrollmentsUnique
    => /\ \A s \in AttStudents, c \in AttClasses :
            /\ \A a \in DOMAIN accounts :
                  Cardinality({k \in RuleLinkable(s, c) : enrollments[k].account = a}) <= 1
            /\ Cardinality(RuleLinkable(s, c)) > 1
               => Cardinality({a \in DOMAIN accounts : accounts[a].student = s}) > 1
       /\ (resp.op = "patch_attendance" /\ resp.error = "multiple")
          => \E s \in AttStudents, c \in AttClasses : Cardinality(RuleLinkable(s, c)) > 1

\* C24, as stated: while enrollments are unique by account and class instance,
\* the auto-link lookup matches at most one enrollment and the multiple-match
\* answer is never given.
C24_AtMostOneMatch ==
    RuleEnrollmentsUnique
    => /\ \A s \in AttStudents, c \in AttClasses : Cardinality(RuleLinkable(s, c)) <= 1
       /\ ~(resp.op = "patch_attendance" /\ resp.error = "multiple")

\* Enrollments are unique by account and class instance, and a partial update
\* that named a student and a class instance without an enrollment was answered
\* with the multiple-match error.
C24_Witness ==
    /\ RuleEnrollmentsUnique
    /\ resp.op = "patch_attendance" /\ resp.code = 400 /\ resp.error = "multiple"
    /\ \E s \in AttStudents, c \in AttClasses : Cardinality(RuleLinkable(s, c)) = 2

\* The summed amounts of the 'completed' payments of invoice i.
RuleCompletedSum(i) ==
    RuleSum([k \in PaymentIds |-> IF payments[k].invoice = i /\ payments[k].status = "completed"
                                  THEN payments[k].amount ELSE 0], PaymentIds)

\* C25: after any sequence of payment creations, updates and deletions handled
\* one at a time, the amount_paid of every invoice is the sum of the amounts of
\* its 'completed' payments.
C25_AmountPaidIsCompletedSum ==
    \A i \in InvoiceIds : invoices[i].amount_paid = RuleCompletedSum(i)

\* C26: with the total of an invoice left as created, no sequence of payment
\* creations and updates handled one at a time brings amount_paid above total.
C26_AmountPaidWithinTotal ==
    \A i \in InvoiceIds : invoices[i].amount_paid <= invoices[i].total

\* C27: with max_students left as it is, no sequence of enrollment creations
\* and status updates handled one at a time brings the number of 'active'
\* enrollments of a class instance above its max_students.
C27_ActiveWithinCapacity ==
    \A c \in Classes : RuleActiveCount(c) <= maxStudents[c]

\* C28: a payment plan created with nothing paid and with installment_amount
\* times number_of_installments at least total_amount never has, after any
\* sequence of record_payment requests, more installments paid than
\* number_of_installments.
C28_InstallmentsWithinNumber ==
    plan # NoPlan
    => (plan.installment_amount * plan.number_of_installments >= plan.total_amount
        => plan.installments_paid <= plan.number_of_installments)

\* Every installment of a plan has been recorded, and one more record_payment
\* request was turned down.
C28_Witness ==
    /\ plan # NoPlan
    /\ plan.installments_paid = plan.number_of_installments
    /\ plan.installment_amount * plan.number_of_installments >= plan.total_amount
    /\ resp.op = "record_payment" /\ resp.code = 400

\* C29: a user comes to hold the role 'admin' only through a request of an
\* admin caller; neither a registration nor a request of a caller who is not an
\* admin leaves a user with the role 'admin' who did not have it before.
C29_AdminRoleOnlyFromAdmin ==
    [][\A k \in DOMAIN users' :
          (/\ users'[k].role = "admin"
           /\ ~(k \in DOMAIN users /\ users[k].role = "admin"))
          => /\ req'.caller \in Existing
             /\ users[req'.caller].is_active
             /\ (users[req'.caller].role = "admin" \/ users[req'.caller].is_superuser)]_vars

\* C30: a caller with role staff, teacher, parent, guardian or student who is
\* not a superuser is shown no user with the role 'admin': the list holds
\* none, and a retrieve, update or delete of one answers 404.
C30_AdminsHiddenFromNonAdmins ==
    [][RuleUserRequest =>
         LET user == users[req'.caller]
         IN (/\ user.role \in {"staff", "teacher", "parent", "guardian", "student"}
             /\ ~user.is_superuser)
            => \A k \in Existing :
                  users[k].role = "admin"
                  => IF req'.kind = "list" THEN k \notin resp'.ids
                     ELSE req'.id = k => resp'.code = 404]_vars

====
